---- MODULE Spec2Model ----
(***************************************************************************)
(* Model of the Voronoi diagram builder of fortune-rs (src/src/voronoi.rs) *)
(* with the numeric kernel it rests on (geom.rs, linear.rs, quadratic.rs). *)
(*                                                                         *)
(* Numbers.  The program computes in f64.  The model computes the same     *)
(* expressions over exact rationals <<n, d>> (d > 0, lowest terms); a      *)
(* square root is never evaluated but carried as a quadratic surd          *)
(* c + s * sqrt(r2), and every comparison the code makes is decided        *)
(* exactly.  The IEEE results of the divisions by zero the code can run    *)
(* into (calc_parabola_from_focus, quadratic::solve) are modelled by the   *)
(* special values "nan", "posinf" and "neginf".  Site coordinates are      *)
(* drawn from small integers, for which an f64 evaluation of the paths     *)
(* that return a Diagram yields the same Diagrams; rounding drift on other *)
(* inputs is outside the model.                                            *)
(*                                                                         *)
(* Intermediate values.  A value the code binds once and reads several     *)
(* times is passed as the parameter of a local operator (LET F(v) == ...   *)
(* IN F(e)), so that e is written once, as in the code.                    *)
(*                                                                         *)
(* Options.  Option<T> is a sequence: <<>> is None and <<v>> is Some(v).   *)
(* Ids are the arena indices of the code (0-based); arena element id is    *)
(* element id + 1 of the sequence that models the Vec.                     *)
(***************************************************************************)
EXTENDS Integers, Sequences, FiniteSets, TLC

(***************************************************************************)
(* Bounds of the exploration                                               *)
(***************************************************************************)
\* add_site calls explored over the life of one Builder
MaxSites == 3
\* build() calls explored over the life of one Builder
MaxBuilds == 2
\* the (width, height) generate() constructs its Builder with, and the
\* coordinates of its two sites
GenerateDim == <<1000, 1000>>
GenerateCoords == {100, 900}
\* (width, height) pairs a Builder is constructed with
Dims == {<<4, 4>>, <<6, 4>>, GenerateDim}
\* x and y coordinates handed to add_site of a Builder of dimension d
Coords(d) ==
    IF d = GenerateDim THEN GenerateCoords
    ELSE IF d[1] = d[2] THEN {1, 2, 3}
    ELSE {1, 3}

(***************************************************************************)
(* Option<T>                                                               *)
(***************************************************************************)
None == <<>>
Some(v) == <<v>>
IsNone(o) == o = <<>>
IsSome(o) == o # <<>>
Unwrap(o) == o[1]

(***************************************************************************)
(* Exact rationals standing for f64 values                                 *)
(***************************************************************************)
Abs(n) == IF n < 0 THEN -n ELSE n
Sign(n) == IF n < 0 THEN -1 ELSE IF n = 0 THEN 0 ELSE 1

RECURSIVE GCD(_, _)
GCD(a, b) == IF b = 0 THEN a ELSE GCD(b, a % b)

\* the rational n/d in lowest terms with a positive denominator (d # 0)
Rat(n, d) ==
    LET g == GCD(Abs(n), Abs(d))
        s == IF d < 0 THEN -1 ELSE 1
    IN  <<(s * n) \div g, (s * d) \div g>>
R(n) == <<n, 1>>
RZero == <<0, 1>>
RAdd(a, b) == Rat(a[1] * b[2] + b[1] * a[2], a[2] * b[2])
RSub(a, b) == Rat(a[1] * b[2] - b[1] * a[2], a[2] * b[2])
RMul(a, b) == Rat(a[1] * b[1], a[2] * b[2])
RDiv(a, b) == Rat(a[1] * b[2], a[2] * b[1])
RNeg(a) == <<-a[1], a[2]>>
RAbs(a) == <<Abs(a[1]), a[2]>>
RSign(a) == Sign(a[1])
RLt(a, b) == a[1] * b[2] < b[1] * a[2]
RLe(a, b) == a[1] * b[2] <= b[1] * a[2]
RHalf(a) == Rat(a[1], 2 * a[2])
LCM(a, b) == (a \div GCD(a, b)) * b

(***************************************************************************)
(* Quadratic surds c + s * sqrt(r2) standing for f64 values that the code  *)
(* obtains with sqrt(); c and r2 are rationals, r2 >= 0, s is 1 or -1.     *)
(* "nan", "posinf" and "neginf" are the IEEE results of a division by 0.   *)
(***************************************************************************)
Surd(c, r2, s) == [kind |-> "fin", c |-> c, r2 |-> r2, s |-> s]
Exact(c) == Surd(c, RZero, 1)
NaN == [kind |-> "nan"]
PosInf == [kind |-> "posinf"]
NegInf == [kind |-> "neginf"]

\* sign of x1 * y1 - x2 * y2 for naturals below 2^30, without overflow:
\* the products are formed in limbs of 15 bits
ProdLimbs(x, y) ==
    LET xh == x \div 32768
        xl == x % 32768
        yh == y \div 32768
        yl == y % 32768
        c0 == xl * yl
        c1 == xh * yl + xl * yh + (c0 \div 32768)
        c2 == xh * yh + (c1 \div 32768)
    IN  <<c2, c1 % 32768, c0 % 32768>>
CmpProd(x1, y1, x2, y2) ==
    LET Cmp(p, q) ==
            IF p[1] # q[1] THEN Sign(p[1] - q[1])
            ELSE IF p[2] # q[2] THEN Sign(p[2] - q[2])
            ELSE Sign(p[3] - q[3])
    IN  Cmp(ProdLimbs(x1, y1), ProdLimbs(x2, y2))

\* sign of sqrt(A) + sqrt(B) - K for naturals A, B and an integer K
SignPlus(A, B, K) ==
    IF K < 0 THEN 1
    ELSE IF K = 0 THEN (IF A > 0 \/ B > 0 THEN 1 ELSE 0)
    ELSE LET m == K * K - A - B
         IN  IF m < 0 THEN 1 ELSE CmpProd(2 * A, 2 * B, m, m)
\* sign of sqrt(A) - sqrt(B) - K for naturals A, B and an integer K >= 0
SignMinusPos(A, B, K) ==
    LET m == A - B - K * K
    IN  IF m < 0 THEN -1 ELSE CmpProd(m, m, 4 * K * K, B)
\* sign of sqrt(A) - sqrt(B) - K for naturals A, B and an integer K
SignMinus(A, B, K) ==
    IF K >= 0 THEN SignMinusPos(A, B, K) ELSE -SignMinusPos(B, A, -K)

\* sign of a - b for two finite surds
SurdCmp(a, b) ==
    LET \* sign of a.s * sqrt(A) + sb * sqrt(B) - K
        SignOf(A, B, K, sb) ==
            IF a.s = 1 /\ sb = 1 THEN SignPlus(A, B, K)
            ELSE IF a.s = -1 /\ sb = -1 THEN -SignPlus(A, B, -K)
            ELSE IF a.s = 1 THEN SignMinus(A, B, K)
            ELSE SignMinus(B, A, K)
        OverCommon(k, M) ==
            SignOf(M * (M \div a.r2[2]) * a.r2[1],
                   M * (M \div b.r2[2]) * b.r2[1],
                   (M \div k[2]) * k[1],
                   -b.s)
        Diff(k) == OverCommon(k, LCM(k[2], LCM(a.r2[2], b.r2[2])))
    IN  Diff(RSub(b.c, a.c))

\* the f64 comparison x < v of a finite x with a possibly non-finite v
XLt(x, v) ==
    CASE v.kind = "nan" -> FALSE
      [] v.kind = "posinf" -> TRUE
      [] v.kind = "neginf" -> FALSE
      [] OTHER -> SurdCmp(x, v) < 0

(***************************************************************************)
(* linear.rs and row_matrix_view.rs: Gaussian elimination with partial     *)
(* pivoting on a row permutation view.  A matrix is a sequence of rows of  *)
(* rationals; row and column indices are 0-based as in the code.           *)
(***************************************************************************)
MRows(m) == Len(m)
MCols(m) == IF Len(m) = 0 THEN 0 ELSE Len(m[1])

\* RowMatrixView::from_matrix: the identity permutation table
from_matrix(src) == [src |-> src, rows |-> [i \in 1..Len(src) |-> i - 1]]
\* RowMatrixView::get / set go through the permutation table
view_get(v, row, col) == v.src[v.rows[row + 1] + 1][col + 1]
view_set(v, row, col, value) ==
    [v EXCEPT !.src[v.rows[row + 1] + 1][col + 1] = value]
swap_rows(v, first, second) ==
    [v EXCEPT !.rows[first + 1] = v.rows[second + 1],
              !.rows[second + 1] = v.rows[first + 1]]

\* abs_pivot_value without the negation
abs_pivot_value_signed(value) == value
abs_pivot_value(value) == IF RLt(value, RZero) THEN RNeg(value) ELSE value

\* the scan of find_pivot: <<index, value>> of the first largest |value|
RECURSIVE PivotScan(_, _, _, _, _)
PivotScan(v, row, col, index, value) ==
    IF row >= MRows(v.src) THEN <<index, value>>
    ELSE LET row_value == abs_pivot_value(view_get(v, row, col))
         IN  IF RLt(value, row_value)
             THEN PivotScan(v, row + 1, col, row, row_value)
             ELSE PivotScan(v, row + 1, col, index, value)

\* find_pivot that gives up where the rows would have to be exchanged
find_pivot_in_place(v, start, col) ==
    IF start >= MRows(v.src) THEN <<FALSE, v>>
    ELSE LET Pick(best) ==
                 IF best[2] = RZero \/ best[1] # start THEN <<FALSE, v>>
                 ELSE <<TRUE, v>>
         IN  Pick(PivotScan(v, start + 1, col, start,
                            abs_pivot_value(view_get(v, start, col))))
\* find_pivot: <<found, view>>
find_pivot(v, start, col) ==
    IF start >= MRows(v.src) THEN <<FALSE, v>>
    ELSE LET Pick(best) ==
                 IF best[2] = RZero THEN <<FALSE, v>>
                 ELSE IF best[1] # start THEN <<TRUE, swap_rows(v, best[1], start)>>
                 ELSE <<TRUE, v>>
         IN  Pick(PivotScan(v, start + 1, col, start,
                            abs_pivot_value(view_get(v, start, col))))

\* the inner loop of eliminate_col over the columns right of the pivot
RECURSIVE EliminateRow(_, _, _, _, _, _)
EliminateRow(v, pivot_row, row, col, row_value, pivot_value) ==
    IF col >= MCols(v.src) THEN v
    ELSE EliminateRow(
             view_set(v, row, col,
                      RSub(RMul(view_get(v, pivot_row, col), row_value),
                           RMul(view_get(v, row, col), pivot_value))),
             pivot_row, row, col + 1, row_value, pivot_value)

RECURSIVE EliminateRows(_, _, _, _, _)
EliminateRows(v, pivot_row, pivot_col, row, pivot_value) ==
    IF row >= MRows(v.src) THEN v
    ELSE LET row_value == view_get(v, row, pivot_col)
         IN  IF row_value # RZero
             THEN EliminateRows(
                      EliminateRow(view_set(v, row, pivot_col, RZero),
                                   pivot_row, row, pivot_col + 1,
                                   row_value, pivot_value),
                      pivot_row, pivot_col, row + 1, pivot_value)
             ELSE EliminateRows(v, pivot_row, pivot_col, row + 1, pivot_value)

eliminate_col(v, pivot_row, pivot_col) ==
    EliminateRows(v, pivot_row, pivot_col, pivot_row + 1,
                  view_get(v, pivot_row, pivot_col))

\* the loop of triangulate_upper: <<order, view>>
RECURSIVE TriangulateFrom(_, _, _)
TriangulateFrom(v, start, col) ==
    IF col >= MCols(v.src) - 1 THEN <<start, v>>
    ELSE LET Step(piv) ==
                 IF piv[1]
                 THEN TriangulateFrom(eliminate_col(piv[2], start, col),
                                      start + 1, col + 1)
                 ELSE TriangulateFrom(piv[2], start, col + 1)
         IN  Step(find_pivot(v, start, col))

triangulate_upper(v) ==
    IF MCols(v.src) = 0 THEN <<0, v>> ELSE TriangulateFrom(v, 0, 0)

\* value - sum over col in from..order-1 of get(row, col) * solution[col]
RECURSIVE SubstituteRow(_, _, _, _, _, _)
SubstituteRow(v, row, col, order, solution, value) ==
    IF col >= order THEN value
    ELSE SubstituteRow(v, row, col + 1, order, solution,
                       RSub(value, RMul(view_get(v, row, col), solution[col + 1])))

\* substitution from the bottom up, rows order-1 down to 0
RECURSIVE BackSubstitute(_, _, _, _)
BackSubstitute(v, row, order, solution) ==
    IF row < 0 THEN solution
    ELSE LET value == SubstituteRow(v, row, row + 1, order, solution,
                                    RNeg(view_get(v, row, order)))
         IN  BackSubstitute(v, row - 1, order,
                [solution EXCEPT ![row + 1] = RDiv(value, view_get(v, row, row))])

\* solve_from_row_matrix_view: [ok, x, src] with src the matrix as it is left
solve_from_row_matrix_view(v) ==
    LET rows == MRows(v.src)
        cols == MCols(v.src)
    IN  IF cols = 0 THEN [ok |-> TRUE, x |-> <<>>, src |-> v.src]
        ELSE IF rows + 1 < cols THEN [ok |-> FALSE, x |-> <<>>, src |-> v.src]
        ELSE LET Substitute(order, tri) ==
                     IF order = cols - 1
                     THEN [ok  |-> TRUE,
                           x   |-> BackSubstitute(tri, order - 1, order,
                                                  [i \in 1..order |-> RZero]),
                           src |-> tri.src]
                     ELSE [ok |-> FALSE, x |-> <<>>, src |-> tri.src]
                 Triangulated(tri) == Substitute(tri[1], tri[2])
             IN  Triangulated(triangulate_upper(v))

solve_from_matrix(m) == solve_from_row_matrix_view(from_matrix(m))

(***************************************************************************)
(* IEEE arithmetic on values that may be infinite or NaN.  The operands    *)
(* are exact (r2 = 0) or non-finite; a zero divisor is the +0.0 the code   *)
(* produces by subtracting equal values.                                   *)
(***************************************************************************)
IsFin(a) == a.kind = "fin"
Inf(sign) == IF sign < 0 THEN NegInf ELSE PosInf
XSign(a) ==
    CASE a.kind = "posinf" -> 1
      [] a.kind = "neginf" -> -1
      [] OTHER -> RSign(a.c)
XNeg(a) ==
    CASE a.kind = "nan" -> NaN
      [] a.kind = "posinf" -> NegInf
      [] a.kind = "neginf" -> PosInf
      [] OTHER -> Exact(RNeg(a.c))
XAdd(a, b) ==
    IF a.kind = "nan" \/ b.kind = "nan" THEN NaN
    ELSE IF IsFin(a) /\ IsFin(b) THEN Exact(RAdd(a.c, b.c))
    ELSE IF IsFin(a) THEN b
    ELSE IF IsFin(b) THEN a
    ELSE IF a.kind = b.kind THEN a ELSE NaN
XSub(a, b) == XAdd(a, XNeg(b))
XMul(a, b) ==
    IF a.kind = "nan" \/ b.kind = "nan" THEN NaN
    ELSE IF IsFin(a) /\ IsFin(b) THEN Exact(RMul(a.c, b.c))
    ELSE IF XSign(a) = 0 \/ XSign(b) = 0 THEN NaN
    ELSE Inf(XSign(a) * XSign(b))
XDiv(a, b) ==
    IF a.kind = "nan" \/ b.kind = "nan" THEN NaN
    ELSE IF IsFin(a) /\ IsFin(b)
         THEN IF b.c # RZero THEN Exact(RDiv(a.c, b.c))
              ELSE IF a.c = RZero THEN NaN ELSE Inf(RSign(a.c))
    ELSE IF IsFin(b) THEN Inf(XSign(a) * (IF XSign(b) < 0 THEN -1 ELSE 1))
    ELSE IF IsFin(a) THEN Exact(RZero)
    ELSE NaN
\* the f64 comparison a < b (false whenever a NaN is involved)
XLess(a, b) ==
    IF a.kind = "nan" \/ b.kind = "nan" THEN FALSE
    ELSE IF a.kind = "neginf" THEN b.kind # "neginf"
    ELSE IF a.kind = "posinf" THEN FALSE
    ELSE XLt(a, b)
XIsZero(a) == IsFin(a) /\ a.c = RZero /\ a.r2 = RZero

(***************************************************************************)
(* quadratic.rs                                                            *)
(***************************************************************************)
\* (-linear + sgn * sqrt(discr)) / div for finite linear, discr > 0 and div
QuadraticRoot(linear, discr, div, sgn) ==
    IF div.c # RZero
    THEN Surd(RDiv(RNeg(linear.c), div.c),
              RDiv(discr.c, RMul(div.c, div.c)),
              sgn * RSign(div.c))
    ELSE \* div = 0 only if quadratic = 0, and then sqrt(discr) = |linear|
         XDiv(Exact(RAdd(RNeg(linear.c), RMul(R(sgn), RAbs(linear.c)))), div)

\* solve: <<"None">>, <<"One", x>> or <<"Two", x1, x2>>
solve(quadratic, linear, constant) ==
    LET Ordered(x1, x2) ==
            IF XLess(x1, x2) THEN <<"Two", x1, x2>> ELSE <<"Two", x2, x1>>
        Roots(discr, div, inf) ==
            Ordered(IF inf THEN XDiv(XSub(XNeg(linear), discr), div)
                    ELSE QuadraticRoot(linear, discr, div, -1),
                    IF inf THEN XDiv(XAdd(XNeg(linear), discr), div)
                    ELSE QuadraticRoot(linear, discr, div, 1))
        FromDiscriminant(discr, div) ==
            IF XLess(Exact(RZero), discr)
            THEN Roots(discr, div, ~IsFin(discr) \/ ~IsFin(linear) \/ ~IsFin(div))
            ELSE IF XLess(discr, Exact(RZero)) THEN <<"None">>
            ELSE <<"One", XDiv(XNeg(linear), XMul(Exact(R(2)), quadratic))>>
    IN  FromDiscriminant(XSub(XMul(linear, linear),
                              XMul(XMul(Exact(R(4)), quadratic), constant)),
                         XMul(Exact(R(2)), quadratic))

(***************************************************************************)
(* geom.rs.  A Vector2F64 is a pair <<x, y>> of rationals.                 *)
(***************************************************************************)
\* BoundingBox::new: the four corners, top-left first
BoundingBox(x1, x2, y1, y2) ==
    LET left   == IF RLt(x2, x1) THEN x2 ELSE x1
        right  == IF RLt(x2, x1) THEN x1 ELSE x2
        top    == IF RLt(y2, y1) THEN y2 ELSE y1
        bottom == IF RLt(y2, y1) THEN y1 ELSE y2
    IN  << <<left, top>>, <<right, top>>, <<right, bottom>>, <<left, bottom>> >>

set_parameter_equations(first_point, first_dir, second_point, second_dir) ==
    << <<first_dir[1], RNeg(second_dir[1]), RSub(first_point[1], second_point[1])>>,
       <<first_dir[2], RNeg(second_dir[2]), RSub(first_point[2], second_point[2])>> >>

\* solve_for_parameters: None or Some(<<k, j>>)
solve_for_parameters(matrix) ==
    LET Params(res) == IF res.ok THEN Some(<<res.x[1], res.x[2]>>) ELSE None
    IN  Params(solve_from_matrix(matrix))

substitute_parameter(point, dir, param) ==
    <<RAdd(point[1], RMul(param, dir[1])), RAdd(point[2], RMul(param, dir[2]))>>

line_with_line(first_point, first_dir, second_point, second_dir) ==
    LET Hit(kj) ==
            IF IsNone(kj) THEN None
            ELSE Some(substitute_parameter(first_point, first_dir, Unwrap(kj)[1]))
    IN  Hit(solve_for_parameters(
                set_parameter_equations(first_point, first_dir, second_point, second_dir)))

ray_with_segment(first_point, first_dir, second_start, second_end) ==
    LET second_dir == <<RSub(second_end[1], second_start[1]),
                        RSub(second_end[2], second_start[2])>>
        Hit(kj) ==
            IF IsNone(kj) THEN None
            ELSE LET k == Unwrap(kj)[1]
                     j == Unwrap(kj)[2]
                 IN  IF RLe(RZero, k) /\ RLe(RZero, j) /\ RLe(j, R(1))
                     THEN Some(substitute_parameter(first_point, first_dir, k))
                     ELSE None
    IN  Hit(solve_for_parameters(
                set_parameter_equations(first_point, first_dir, second_start, second_dir)))

\* the first hit among the sides top, right, bottom, left
ray_with_bounding_box(first_point, first_dir, points) ==
    LET top    == ray_with_segment(first_point, first_dir, points[1], points[2])
        right  == ray_with_segment(first_point, first_dir, points[2], points[3])
        bottom == ray_with_segment(first_point, first_dir, points[3], points[4])
        left   == ray_with_segment(first_point, first_dir, points[4], points[1])
        OrElse(hit, other) == IF IsSome(hit) THEN hit ELSE other
    IN  OrElse(top, OrElse(right, OrElse(bottom, left)))

vectors_are_dependent(first, second) ==
    RSub(RMul(first[1], second[2]), RMul(second[1], first[2])) = RZero

\* the square of distance_between_points (the distance is its square root)
distance2_between_points(first, second) ==
    LET dx == RSub(first[1], second[1])
        dy == RSub(first[2], second[2])
    IN  RAdd(RMul(dx, dx), RMul(dy, dy))

\* circle_through_points: None or Some(<<center, radius>>), the radius a surd
circle_through_points(first_point, second_point, third_point) ==
    LET d1 == <<RSub(second_point[2], first_point[2]), RSub(first_point[1], second_point[1])>>
        d2 == <<RSub(second_point[2], third_point[2]), RSub(third_point[1], second_point[1])>>
    IN  IF vectors_are_dependent(d1, d2) THEN None
        ELSE LET p1 == <<RHalf(RAdd(first_point[1], second_point[1])),
                         RHalf(RAdd(first_point[2], second_point[2]))>>
                 p2 == <<RHalf(RAdd(third_point[1], second_point[1])),
                         RHalf(RAdd(third_point[2], second_point[2]))>>
                 Around(focus) ==
                     Some(<<focus,
                            Surd(RZero, distance2_between_points(focus, first_point), 1)>>)
                 \* independent directions: the lines do intersect
             IN  Around(Unwrap(line_with_line(p1, d1, p2, d2)))

is_clockwise(first, second) ==
    RLt(RSub(RMul(first[1], second[2]), RMul(first[2], second[1])), RZero)

\* calc_parabola_from_focus: <<a, b, c>> of y = a x^2 + b x + c
calc_parabola_from_focus(focus, dir_y) ==
    LET Coefficients(a) ==
            <<a,
              XMul(Exact(RMul(R(-2), focus[1])), a),
              XMul(Exact(RSub(RAdd(RMul(focus[1], focus[1]), RMul(focus[2], focus[2])),
                              RMul(dir_y, dir_y))), a)>>
    IN  Coefficients(XDiv(Exact(R(1)), Exact(RMul(R(2), RSub(focus[2], dir_y)))))

\* intersect_parabolas_from_foci, the x coordinates of the intersections:
\* <<"Infinite">>, <<"None">>, <<"One", x>> or <<"Two", x1, x2>>
intersect_parabolas_from_foci(first_focus, second_focus, dir_y) ==
    LET Roots(a, b, c) ==
            IF XIsZero(a) /\ XIsZero(b) /\ XIsZero(c) THEN <<"Infinite">>
            ELSE solve(a, b, c)
        Difference(f, g) ==
            Roots(XSub(g[1], f[1]), XSub(g[2], f[2]), XSub(g[3], f[3]))
    IN  Difference(calc_parabola_from_focus(first_focus, dir_y),
                   calc_parabola_from_focus(second_focus, dir_y))

(***************************************************************************)
(* voronoi.rs: the Builder.  A Builder value b is the record of the        *)
(* struct's fields; b.panic is "" while the running call has not failed    *)
(* and the panic message afterwards (a panicked call does nothing more).   *)
(***************************************************************************)
At(seq, id) == seq[id + 1]
Arc(id) == <<"Arc", id>>
Edge(id) == <<"Edge", id>>
IsArc(node) == node[1] = "Arc"

Panic(b, msg) == IF b.panic = "" THEN [b EXCEPT !.panic = msg] ELSE b
Ok(b) == b.panic = ""

\* Builder::new
BuilderNew(width, height) ==
    [width |-> width, height |-> height,
     vertices |-> <<>>, half_edges |-> <<>>, faces |-> <<>>,
     events |-> <<>>, edges |-> <<>>, arcs |-> <<>>, root |-> None,
     panic |-> ""]

add_site(b, x, y) ==
    [b EXCEPT !.faces = Append(@, [id |-> Len(b.faces), x |-> x, y |-> y,
                                   half_edge_id |-> None,
                                   start_id |-> None, end_id |-> None])]

\* create_vertex with the coordinates stored the wrong way round
create_vertex_swapped(b, x, y) ==
    [b EXCEPT !.vertices = Append(@, [id |-> Len(b.vertices), x |-> y, y |-> x])]

\* create_vertex: the new id is Len(b.vertices) before the call
create_vertex(b, x, y) ==
    [b EXCEPT !.vertices = Append(@, [id |-> Len(b.vertices), x |-> x, y |-> y])]

\* create_half_edge with the start vertex id off by one
create_half_edge_next_vertex(b, face_id, start_id) ==
    [b EXCEPT !.half_edges = Append(@, [id |-> Len(b.half_edges),
                                        face_id |-> face_id,
                                        start_id |-> IF IsSome(start_id)
                                                     THEN Some(Unwrap(start_id) + 1)
                                                     ELSE None,
                                        twin_id |-> None,
                                        prev_id |-> None,
                                        next_id |-> None])]

\* create_half_edge: the new id is Len(b.half_edges) before the call
create_half_edge(b, face_id, start_id) ==
    [b EXCEPT !.half_edges = Append(@, [id |-> Len(b.half_edges),
                                        face_id |-> face_id,
                                        start_id |-> start_id,
                                        twin_id |-> None,
                                        prev_id |-> None,
                                        next_id |-> None])]

\* create_half_edge_pair: the ids are Len(b.half_edges) and the one after it
create_half_edge_pair(b, face_id, twin_face_id) ==
    LET id      == Len(b.half_edges)
        twin_id == id + 1
        b2      == create_half_edge(create_half_edge(b, face_id, None), twin_face_id, None)
    IN  [b2 EXCEPT !.half_edges[id + 1].twin_id = Some(twin_id),
                   !.half_edges[twin_id + 1].twin_id = Some(id)]

\* connect_half_edges without the check that the first half-edge is free
connect_half_edges_overwriting(b, first_id, second_id) ==
    LET first  == At(b.half_edges, first_id)
        second == At(b.half_edges, second_id)
    IN  IF ~Ok(b) THEN b
        ELSE IF first.face_id # second.face_id
        THEN Panic(b, "half edges have different face")
        ELSE IF IsSome(second.prev_id)
        THEN Panic(b, "second half edge is already connected")
        ELSE [b EXCEPT !.half_edges[first_id + 1].next_id = Some(second_id),
                       !.half_edges[second_id + 1].prev_id = Some(first_id)]

\* connect_half_edges with the second half-edge linked back to itself
connect_half_edges_prev_self(b, first_id, second_id) ==
    LET first  == At(b.half_edges, first_id)
        second == At(b.half_edges, second_id)
    IN  IF ~Ok(b) THEN b
        ELSE IF first.face_id # second.face_id
        THEN Panic(b, "half edges have different face")
        ELSE IF IsSome(first.next_id)
        THEN Panic(b, "first half edge is already connected")
        ELSE IF IsSome(second.prev_id)
        THEN Panic(b, "second half edge is already connected")
        ELSE [b EXCEPT !.half_edges[first_id + 1].next_id = Some(second_id),
                       !.half_edges[second_id + 1].prev_id = Some(second_id)]

connect_half_edges(b, first_id, second_id) ==
    LET first  == At(b.half_edges, first_id)
        second == At(b.half_edges, second_id)
    IN  IF ~Ok(b) THEN b
        ELSE IF first.face_id # second.face_id
        THEN Panic(b, "half edges have different face")
        ELSE IF IsSome(first.next_id)
        THEN Panic(b, "first half edge is already connected")
        ELSE IF IsSome(second.prev_id)
        THEN Panic(b, "second half edge is already connected")
        ELSE [b EXCEPT !.half_edges[first_id + 1].next_id = Some(second_id),
                       !.half_edges[second_id + 1].prev_id = Some(first_id)]

\* create_arc: the new id is Len(b.arcs) before the call
create_arc(b, face_id) ==
    [b EXCEPT !.arcs = Append(@, [id |-> Len(b.arcs), face_id |-> face_id,
                                  remove_event_id |-> None, parent_id |-> None])]

\* create_edge: the new id is Len(b.edges) before the call
create_edge(b, half_edge_id, left_child, right_child) ==
    [b EXCEPT !.edges = Append(@, [id |-> Len(b.edges),
                                   half_edge_id |-> half_edge_id,
                                   parent_id |-> None,
                                   left_child |-> left_child,
                                   right_child |-> right_child])]

\* the descent of find_prev_arc_id: always the right child
RECURSIVE DescendRight(_, _)
DescendRight(b, node) ==
    IF IsArc(node) THEN node[2] ELSE DescendRight(b, At(b.edges, node[2]).right_child)
\* find_prev_arc_id without the descent: the left child taken for the arc
find_prev_arc_id_no_descent(b, edge_id) == At(b.edges, edge_id).left_child[2]
find_prev_arc_id(b, edge_id) == DescendRight(b, At(b.edges, edge_id).left_child)

\* the descent of find_next_arc_id: always the left child
RECURSIVE DescendLeft(_, _)
DescendLeft(b, node) ==
    IF IsArc(node) THEN node[2] ELSE DescendLeft(b, At(b.edges, node[2]).left_child)
find_next_arc_id(b, edge_id) == DescendLeft(b, At(b.edges, edge_id).right_child)

\* find_first_edge_id: the last edge met going left from the root
RECURSIVE FirstEdgeFrom(_, _, _)
FirstEdgeFrom(b, node, result) ==
    IF IsArc(node) THEN result
    ELSE FirstEdgeFrom(b, At(b.edges, node[2]).left_child, Some(node[2]))
find_first_edge_id(b) ==
    IF IsNone(b.root) THEN None ELSE FirstEdgeFrom(b, Unwrap(b.root), None)

\* the climb of find_prev_edge_id: the first ancestor entered from its right
RECURSIVE ClimbFromLeft(_, _)
ClimbFromLeft(b, edge_id) ==
    LET parent == At(b.edges, edge_id).parent_id
    IN  IF IsNone(parent) THEN None
        ELSE IF At(b.edges, Unwrap(parent)).right_child = Edge(edge_id) THEN parent
        ELSE ClimbFromLeft(b, Unwrap(parent))
find_prev_edge_id(b, arc_id) ==
    LET parent == At(b.arcs, arc_id).parent_id
    IN  IF IsNone(parent) THEN None
        ELSE IF At(b.edges, Unwrap(parent)).right_child = Arc(arc_id) THEN parent
        ELSE ClimbFromLeft(b, Unwrap(parent))

\* the climb of find_next_edge_id: the first ancestor entered from its left
RECURSIVE ClimbFromRight(_, _)
ClimbFromRight(b, edge_id) ==
    LET parent == At(b.edges, edge_id).parent_id
    IN  IF IsNone(parent) THEN None
        ELSE IF At(b.edges, Unwrap(parent)).left_child = Edge(edge_id) THEN parent
        ELSE ClimbFromRight(b, Unwrap(parent))
find_next_edge_id(b, arc_id) ==
    LET parent == At(b.arcs, arc_id).parent_id
    IN  IF IsNone(parent) THEN None
        ELSE IF At(b.edges, Unwrap(parent)).left_child = Arc(arc_id) THEN parent
        ELSE ClimbFromRight(b, Unwrap(parent))

get_arc_focus(b, arc_id) ==
    LET face == At(b.faces, At(b.arcs, arc_id).face_id)
    IN  <<face.x, face.y>>

\* find_split_arc: Some(arc id), or None when it panics with
\* "expected two intersections"
RECURSIVE find_split_arc(_, _, _)
find_split_arc(b, node_id, new_face_id) ==
    IF IsArc(node_id) THEN Some(node_id[2])
    ELSE LET edge_id    == node_id[2]
             face       == At(b.faces, new_face_id)
             left_face  == At(b.faces, At(b.arcs, find_prev_arc_id(b, edge_id)).face_id)
             right_face == At(b.faces, At(b.arcs, find_next_arc_id(b, edge_id)).face_id)
             Side(hit) ==
                 IF hit[1] # "Two" THEN None
                 ELSE LET ix == IF RLt(left_face.y, right_face.y) THEN hit[2] ELSE hit[3]
                      IN  find_split_arc(b,
                              IF XLt(Exact(face.x), ix)
                              THEN At(b.edges, edge_id).left_child
                              ELSE At(b.edges, edge_id).right_child,
                              new_face_id)
         IN  Side(intersect_parabolas_from_foci(
                      <<left_face.x, left_face.y>>,
                      <<right_face.x, right_face.y>>, face.y))

\* update_remove_event
update_remove_event(b, arc_id, scan_line_y) ==
    LET b1   == [b EXCEPT !.arcs[arc_id + 1].remove_event_id = None]
        left_edge_id  == find_prev_edge_id(b1, arc_id)
        right_edge_id == find_next_edge_id(b1, arc_id)
        Schedule(focus, center, priority) ==
            IF SurdCmp(priority, Exact(scan_line_y)) >= 0
               /\ RLe(center[2], b1.height)
               /\ RLe(focus[2], center[2])
            THEN [b1 EXCEPT
                    !.events = Append(@, [id |-> Len(b1.events),
                                          priority |-> priority,
                                          kind |-> <<"RemoveArc", arc_id>>]),
                    !.arcs[arc_id + 1].remove_event_id = Some(arc_id)]
            ELSE b1
        \* center and radius of the circle; the priority is center.y + radius
        Circle(focus, center, radius) ==
            Schedule(focus, center, Surd(center[2], radius.r2, 1))
        Through(focus, circle) ==
            IF IsNone(circle) THEN b1
            ELSE Circle(focus, Unwrap(circle)[1], Unwrap(circle)[2])
    IN  IF ~Ok(b) THEN b
        ELSE IF IsNone(left_edge_id) \/ IsNone(right_edge_id) THEN b1
        ELSE LET left_arc_id  == find_prev_arc_id(b1, Unwrap(left_edge_id))
                 right_arc_id == find_next_arc_id(b1, Unwrap(right_edge_id))
             IN  Through(get_arc_focus(b1, arc_id),
                         circle_through_points(get_arc_focus(b1, left_arc_id),
                                               get_arc_focus(b1, arc_id),
                                               get_arc_focus(b1, right_arc_id)))

\* add_arc
add_arc(b, face_id) ==
    IF ~Ok(b) THEN b
    ELSE IF IsNone(b.root)
    THEN [create_arc(b, face_id) EXCEPT !.root = Some(Arc(Len(b.arcs)))]
    ELSE LET \* the two edges over the arcs of b4; b3 is the builder before
             \* the arcs were created
             Edges(b3, b4, split_arc_id, half_edge_id, twin_id) ==
                 LET parent_id     == At(b3.arcs, split_arc_id).parent_id
                     new_arc_id    == Len(b3.arcs)
                     cloned_arc_id == new_arc_id + 1
                     right_edge_id == Len(b4.edges)
                     left_edge_id  == right_edge_id + 1
                     b5 == create_edge(b4, half_edge_id, Arc(new_arc_id), Arc(cloned_arc_id))
                     b6 == [b5 EXCEPT !.arcs[new_arc_id + 1].parent_id = Some(right_edge_id),
                                      !.arcs[cloned_arc_id + 1].parent_id = Some(right_edge_id)]
                     b7 == create_edge(b6, twin_id, Arc(split_arc_id), Edge(right_edge_id))
                     b8 == [b7 EXCEPT !.arcs[split_arc_id + 1].parent_id = Some(left_edge_id),
                                      !.edges[right_edge_id + 1].parent_id = Some(left_edge_id),
                                      !.edges[left_edge_id + 1].parent_id = parent_id,
                                      !.root = IF IsNone(parent_id)
                                               THEN Some(Edge(left_edge_id))
                                               ELSE @]
                     scan_line_y == At(b4.faces, face_id).y
                 IN  update_remove_event(
                         update_remove_event(b8, split_arc_id, scan_line_y),
                         cloned_arc_id, scan_line_y)
             \* the new arc and the clone of the split arc
             Arcs(b3, split_arc_id, half_edge_id, twin_id) ==
                 Edges(b3,
                       create_arc(create_arc(b3, face_id),
                                  At(b3.arcs, split_arc_id).face_id),
                       split_arc_id, half_edge_id, twin_id)
             \* get_or_insert: only an empty half_edge_id is filled
             GetOrInsert(b1, id, half_edge_id) ==
                 IF IsNone(At(b1.faces, id).half_edge_id)
                 THEN [b1 EXCEPT !.faces[id + 1].half_edge_id = Some(half_edge_id)]
                 ELSE b1
             HalfEdges(b1, split_arc_id, split_face_id, half_edge_id, twin_id) ==
                 Arcs(GetOrInsert(GetOrInsert(b1, face_id, half_edge_id),
                                  split_face_id, twin_id),
                      split_arc_id, half_edge_id, twin_id)
             Split(split_arc_id, split_face_id) ==
                 HalfEdges(create_half_edge_pair(b, face_id, split_face_id),
                           split_arc_id, split_face_id,
                           Len(b.half_edges), Len(b.half_edges) + 1)
             Found(split) ==
                 IF IsNone(split) THEN Panic(b, "expected two intersections")
                 ELSE Split(Unwrap(split), At(b.arcs, Unwrap(split)).face_id)
         IN  Found(find_split_arc(b, Unwrap(b.root), face_id))

UnwrapNone == "called Option::unwrap() on a None value"

replace_child(b, parent_edge_id, old_child, new_child) ==
    LET b1 == IF IsArc(new_child)
              THEN [b EXCEPT !.arcs[new_child[2] + 1].parent_id = Some(parent_edge_id)]
              ELSE [b EXCEPT !.edges[new_child[2] + 1].parent_id = Some(parent_edge_id)]
    IN  IF ~Ok(b) THEN b
        ELSE IF At(b1.edges, parent_edge_id).left_child = old_child
        THEN [b1 EXCEPT !.edges[parent_edge_id + 1].left_child = new_child]
        ELSE IF At(b1.edges, parent_edge_id).right_child = old_child
        THEN [b1 EXCEPT !.edges[parent_edge_id + 1].right_child = new_child]
        ELSE Panic(b1, "node to be replaces is not a child of the parent")

\* remove_arc, after its two edges were found
RemoveArcBetween(b, arc_id, left_edge_id, right_edge_id) ==
    LET left_arc_id   == find_prev_arc_id(b, left_edge_id)
        left_face_id  == At(b.arcs, left_arc_id).face_id
        right_arc_id  == find_next_arc_id(b, right_edge_id)
        right_face_id == At(b.arcs, right_arc_id).face_id
        intersection_id == Len(b.vertices)
        left_in_id      == At(b.edges, left_edge_id).half_edge_id
        left_out        == At(b.half_edges, left_in_id).twin_id
        right_out_id    == At(b.edges, right_edge_id).half_edge_id
        right_in        == At(b.half_edges, right_out_id).twin_id
        down_out_id     == Len(b.half_edges)
        down_in_id      == down_out_id + 1
        \* the removed arc's edge is replaced by its sibling in the tree
        Replaced(b6, edge_id) ==
            IF ~Ok(b6) THEN b6
            ELSE [b6 EXCEPT !.edges[edge_id + 1].half_edge_id = down_out_id]
        Reparent(b5) ==
            IF ~Ok(b5) THEN b5
            ELSE IF At(b5.edges, left_edge_id).right_child = Arc(arc_id)
            THEN LET grand_parent == At(b5.edges, left_edge_id).parent_id
                 IN  IF IsNone(grand_parent) THEN Panic(b5, UnwrapNone)
                     ELSE Replaced(replace_child(b5, Unwrap(grand_parent),
                                                 Edge(left_edge_id), Arc(left_arc_id)),
                                   right_edge_id)
            ELSE LET grand_parent == At(b5.edges, right_edge_id).parent_id
                 IN  IF IsNone(grand_parent) THEN Panic(b5, UnwrapNone)
                     ELSE Replaced(replace_child(b5, Unwrap(grand_parent),
                                                 Edge(right_edge_id), Arc(right_arc_id)),
                                   left_edge_id)
        \* half-edge second starts at the new vertex and follows first
        Connect(b2, first_id, second_id) ==
            IF ~Ok(b2) THEN b2
            ELSE connect_half_edges(
                     [b2 EXCEPT !.half_edges[second_id + 1].start_id = Some(intersection_id)],
                     first_id, second_id)
        Vertex(center) ==
            IF IsNone(left_out) \/ IsNone(right_in)
            THEN Panic(create_vertex(b, center[1], center[2]), UnwrapNone)
            ELSE Reparent(
                     Connect(
                         Connect(
                             Connect(create_half_edge_pair(
                                         create_vertex(b, center[1], center[2]),
                                         left_face_id, right_face_id),
                                     left_in_id, down_out_id),
                             Unwrap(right_in), Unwrap(left_out)),
                         down_in_id, right_out_id))
        Center(circle) ==
            IF IsNone(circle) THEN Panic(b, UnwrapNone) ELSE Vertex(Unwrap(circle)[1])
    IN  Center(circle_through_points(get_arc_focus(b, left_arc_id),
                                     get_arc_focus(b, arc_id),
                                     get_arc_focus(b, right_arc_id)))

remove_arc(b, arc_id) ==
    LET left_edge  == find_prev_edge_id(b, arc_id)
        right_edge == find_next_edge_id(b, arc_id)
    IN  IF ~Ok(b) THEN b
        ELSE IF IsNone(left_edge) \/ IsNone(right_edge) THEN Panic(b, UnwrapNone)
        ELSE RemoveArcBetween(b, arc_id, Unwrap(left_edge), Unwrap(right_edge))

check_remove_arc(b, arc_id, event_id) ==
    IF At(b.arcs, arc_id).remove_event_id = Some(event_id)
    THEN remove_arc(b, arc_id)
    ELSE b

\* create_events: one AddArc event per face, pushed in face order
RECURSIVE CreateEventsFrom(_, _)
CreateEventsFrom(b, n) ==
    IF n > Len(b.faces) THEN b
    ELSE CreateEventsFrom(
             [b EXCEPT !.events = Append(@, [id |-> Len(b.events),
                                             priority |-> Exact(b.faces[n].x),
                                             kind |-> <<"AddArc", b.faces[n].id>>])],
             n + 1)
create_events(b) == CreateEventsFrom(b, 1)

\* Event::cmp with the ids compared the other way round
EventCmpSmallerIdGreater(self, other) ==
    LET ThenById(c) == IF c = 0 THEN Sign(other.id - self.id) ELSE c
    IN  ThenById(SurdCmp(self.priority, other.priority))

\* Event::cmp: -1 (Less), 0 (Equal), 1 (Greater)
EventCmp(self, other) ==
    LET ThenById(c) == IF c = 0 THEN Sign(self.id - other.id) ELSE c
    IN  ThenById(SurdCmp(self.priority, other.priority))

\* BinaryHeap::pop returns a greatest event; b.events holds the heap's
\* content, and the indices of its greatest events are:
Greatest(events) ==
    {i \in 1..Len(events) : \A j \in 1..Len(events) : EventCmp(events[j], events[i]) <= 0}

RemoveAt(seq, i) == SubSeq(seq, 1, i - 1) \o SubSeq(seq, i + 1, Len(seq))

\* one turn of the loop of handle_events, popping the event at index i
\* HandleOne leaving the handled event in the queue
HandleOneWithoutPop(b, i) ==
    LET event == b.events[i]
    IN  IF event.kind[1] = "AddArc"
        THEN add_arc(b, event.kind[2])
        ELSE check_remove_arc(b, event.kind[2], event.id)

HandleOne(b, i) ==
    LET event == b.events[i]
        b1    == [b EXCEPT !.events = RemoveAt(@, i)]
    IN  IF event.kind[1] = "AddArc"
        THEN add_arc(b1, event.kind[2])
        ELSE check_remove_arc(b1, event.kind[2], event.id)

\* calc_half_edge_start without the turn of the direction
calc_half_edge_start_unturned(b, bounds, face_id, twin_face_id) ==
    LET face      == At(b.faces, face_id)
        twin_face == At(b.faces, twin_face_id)
        pos  == <<RHalf(RAdd(face.x, twin_face.x)), RHalf(RAdd(face.y, twin_face.y))>>
        dir  == <<RSub(face.y, twin_face.y), RSub(twin_face.x, face.x)>>
        Start(v) ==
            IF IsNone(v) THEN Panic(b, "ray should intersect with bounds")
            ELSE create_vertex(b, Unwrap(v)[1], Unwrap(v)[2])
    IN  Start(ray_with_bounding_box(pos, dir, bounds))

calc_half_edge_start(b, bounds, face_id, twin_face_id) ==
    LET face      == At(b.faces, face_id)
        twin_face == At(b.faces, twin_face_id)
        pos  == <<RHalf(RAdd(face.x, twin_face.x)), RHalf(RAdd(face.y, twin_face.y))>>
        sub  == <<RSub(twin_face.x, face.x), RSub(twin_face.y, face.y)>>
        dir0 == <<RSub(face.y, twin_face.y), RSub(twin_face.x, face.x)>>
        dir  == IF ~is_clockwise(sub, dir0) THEN <<RNeg(dir0[1]), RNeg(dir0[2])>> ELSE dir0
        Start(v) ==
            IF IsNone(v) THEN Panic(b, "ray should intersect with bounds")
            ELSE create_vertex(b, Unwrap(v)[1], Unwrap(v)[2])
    IN  Start(ray_with_bounding_box(pos, dir, bounds))

complete_edge(b, bounds, edge_id) ==
    LET half_edge_id == At(b.edges, edge_id).half_edge_id
        face_id      == At(b.half_edges, half_edge_id).face_id
        twin         == At(b.half_edges, half_edge_id).twin_id
        twin_id      == Unwrap(twin)
        twin_face_id == At(b.half_edges, twin_id).face_id
        Ends(b1) ==
            IF ~Ok(b1) THEN b1
            ELSE [b1 EXCEPT !.faces[face_id + 1].end_id = Some(half_edge_id),
                            !.faces[twin_face_id + 1].start_id = Some(twin_id)]
        Start(b0) ==
            IF ~Ok(b0) THEN b0
            ELSE [b0 EXCEPT !.half_edges[half_edge_id + 1].start_id =
                                Some(Len(b.vertices))]
    IN  IF ~Ok(b) THEN b
        ELSE IF IsNone(twin) THEN Panic(b, "half edge should have a twin")
        ELSE IF IsNone(At(b.half_edges, half_edge_id).start_id)
        THEN Ends(Start(calc_half_edge_start(b, bounds, face_id, twin_face_id)))
        ELSE Ends(b)

NeverEnds == {"complete_edges never ends", "complete_face_bounds never ends"}

\* the loop of complete_edges; a second visit of an edge repeats the first
\* with the same state, so that the loop never ends
RECURSIVE CompleteEdgesFrom(_, _, _, _)
CompleteEdgesFrom(b, bounds, next, visited) ==
    IF ~Ok(b) \/ IsNone(next) THEN b
    ELSE IF Unwrap(next) \in visited THEN Panic(b, "complete_edges never ends")
    ELSE LET edge_id == Unwrap(next)
             Onward(b1) ==
                 CompleteEdgesFrom(b1, bounds,
                                   find_next_edge_id(b1, find_next_arc_id(b1, edge_id)),
                                   visited \cup {edge_id})
         IN  Onward(complete_edge(b, bounds, edge_id))

complete_edges(b) ==
    CompleteEdgesFrom(b, BoundingBox(RZero, b.width, RZero, b.height),
                      find_first_edge_id(b), {})

has_complete_bounds(face) == IsNone(face.start_id) /\ IsNone(face.end_id)

\* the loop of complete_face_bounds: <<b, cur_half_edge_id, cur_vertex_id>>
\* at the break.  The walk goes from corner to corner; when it comes back to
\* a position it already left, it goes round for ever.
RECURSIVE FaceBoundsWalk(_, _, _, _, _, _, _)
FaceBoundsWalk(b, face_id, cur_half_edge_id, cur_vertex_id, cur, end, seen) ==
    LET cur_x == cur[1]
        cur_y == cur[2]
        end_x == end[1]
        end_y == end[2]
        next_half_edge_id == Len(b.half_edges)
        \* the new border half-edge is linked; on to the corner <<x, y>>
        Corner(b1, x, y) ==
            IF ~Ok(b1) THEN <<b1, cur_half_edge_id, cur_vertex_id>>
            ELSE FaceBoundsWalk(create_vertex(b1, x, y), face_id,
                                next_half_edge_id, Len(b1.vertices),
                                <<x, y>>, end, seen \cup {cur})
        \* step is <<"break">>, <<"next", x, y>> or <<"panic">>
        Take(step) ==
            IF step[1] = "panic"
            THEN <<Panic(b, "end vertex is not on bounding box"),
                   cur_half_edge_id, cur_vertex_id>>
            ELSE IF step[1] = "break" THEN <<b, cur_half_edge_id, cur_vertex_id>>
            ELSE IF cur \in seen
            THEN <<Panic(b, "complete_face_bounds never ends"),
                   cur_half_edge_id, cur_vertex_id>>
            ELSE Corner(connect_half_edges(
                            create_half_edge(b, face_id, Some(cur_vertex_id)),
                            cur_half_edge_id, next_half_edge_id),
                        step[2], step[3])
    IN  Take(IF cur_y = RZero /\ cur_x # b.width
             THEN IF end_y = RZero /\ RLe(cur_x, end_x) THEN <<"break">>
                  ELSE <<"next", b.width, RZero>>
             ELSE IF cur_x = b.width /\ cur_y # b.height
             THEN IF end_x = b.width /\ RLe(cur_y, end_y) THEN <<"break">>
                  ELSE <<"next", b.width, b.height>>
             ELSE IF cur_y = b.height /\ cur_x # RZero
             THEN IF end_y = b.height /\ RLe(end_x, cur_x) THEN <<"break">>
                  ELSE <<"next", RZero, b.height>>
             ELSE IF cur_x = RZero /\ cur_y # RZero
             THEN IF end_x = RZero /\ RLe(end_y, cur_y) THEN <<"break">>
                  ELSE <<"next", RZero, RZero>>
             ELSE <<"panic">>)

complete_face_bounds(b, face_id) ==
    LET start       == At(b.faces, face_id).start_id
        first_twin  == At(b.half_edges, Unwrap(start)).twin_id
        first_cur   == At(b.half_edges, Unwrap(first_twin)).start_id
        end_edge    == At(b.faces, face_id).end_id
        end_vertex  == At(b.half_edges, Unwrap(start)).start_id
        cur_v       == At(b.vertices, Unwrap(first_cur))
        end_v       == At(b.vertices, Unwrap(end_vertex))
        \* the last border half-edge, from the walk's position to end_edge
        Close(b1, cur_half_edge_id, cur_vertex_id) ==
            IF ~Ok(b1) THEN b1
            ELSE connect_half_edges(
                     connect_half_edges(
                         create_half_edge(b1, face_id, Some(cur_vertex_id)),
                         cur_half_edge_id, Len(b1.half_edges)),
                     Len(b1.half_edges), Unwrap(end_edge))
        Walked(walk) == Close(walk[1], walk[2], walk[3])
    IN  IF ~Ok(b) THEN b
        ELSE IF IsNone(start) THEN Panic(b, "face bounds must have start half edge")
        ELSE IF IsNone(first_twin) \/ IsNone(first_cur) THEN Panic(b, UnwrapNone)
        ELSE IF IsNone(end_edge) THEN Panic(b, "face bounds must have end half_edge")
        ELSE IF IsNone(end_vertex) THEN Panic(b, UnwrapNone)
        ELSE Walked(FaceBoundsWalk(b, face_id, Unwrap(start), Unwrap(first_cur),
                                   <<cur_v.x, cur_v.y>>, <<end_v.x, end_v.y>>, {}))

\* the loop of bound over the faces, when the root is an edge
RECURSIVE BoundFacesFrom(_, _)
BoundFacesFrom(b, id) ==
    IF ~Ok(b) \/ id >= Len(b.faces) THEN b
    ELSE BoundFacesFrom(IF ~has_complete_bounds(At(b.faces, id))
                        THEN complete_face_bounds(b, id)
                        ELSE b,
                        id + 1)

bound(b) ==
    IF ~Ok(b) \/ IsNone(b.root) THEN b
    ELSE IF IsArc(Unwrap(b.root))
    THEN LET face_id         == At(b.arcs, Unwrap(b.root)[2]).face_id
             top_left_id     == Len(b.vertices)
             top_right_id    == top_left_id + 1
             bottom_right_id == top_left_id + 2
             bottom_left_id  == top_left_id + 3
             top_id    == Len(b.half_edges)
             right_id  == top_id + 1
             bottom_id == top_id + 2
             left_id   == top_id + 3
             b1 == create_vertex(create_vertex(create_vertex(create_vertex(b,
                       RZero, RZero), b.width, RZero), b.width, b.height), RZero, b.height)
             b2 == create_half_edge(create_half_edge(create_half_edge(create_half_edge(b1,
                       face_id, Some(top_left_id)), face_id, Some(top_right_id)),
                       face_id, Some(bottom_right_id)), face_id, Some(bottom_left_id))
             Ring(b3) ==
                 IF ~Ok(b3) THEN b3
                 ELSE [b3 EXCEPT !.faces[1].half_edge_id = Some(top_id)]
         IN  Ring(connect_half_edges(connect_half_edges(connect_half_edges(
                      connect_half_edges(b2, top_id, right_id), right_id, bottom_id),
                      bottom_id, left_id), left_id, top_id))
    ELSE BoundFacesFrom(b, 0)

\* HalfEdgeBuilder::into_half_edge: the panic message, or "" when there is none
IntoHalfEdgePanic(he) ==
    IF IsNone(he.start_id) THEN "all half edges should have a start vertex"
    ELSE IF IsNone(he.prev_id) THEN "all half edges should have a previous half edge"
    ELSE IF IsNone(he.next_id) THEN "all half edges should have a next half edge"
    ELSE ""

\* into_half_edge with the twin copied from prev_id
into_half_edge_twin_from_prev(he) ==
    [id |-> he.id, face_id |-> he.face_id, start_id |-> Unwrap(he.start_id),
     twin_id |-> he.prev_id, prev_id |-> Unwrap(he.prev_id), next_id |-> Unwrap(he.next_id)]

\* into_half_edge with the twin dropped
into_half_edge_without_twin(he) ==
    [id |-> he.id, face_id |-> he.face_id, start_id |-> Unwrap(he.start_id),
     twin_id |-> None, prev_id |-> Unwrap(he.prev_id), next_id |-> Unwrap(he.next_id)]

\* HalfEdgeBuilder::into_half_edge
into_half_edge(he) ==
    [id |-> he.id, face_id |-> he.face_id, start_id |-> Unwrap(he.start_id),
     twin_id |-> he.twin_id, prev_id |-> Unwrap(he.prev_id), next_id |-> Unwrap(he.next_id)]

\* FaceBuilder::into_face: the panic message, or "" when there is none
IntoFacePanic(f) ==
    IF IsNone(f.half_edge_id) THEN "face should have at least one half edge" ELSE ""

\* into_face taking the first half-edge of the arena as the start
into_face_first_half_edge(f) ==
    [id |-> f.id, x |-> f.x, y |-> f.y, start_id |-> 0]

\* FaceBuilder::into_face
into_face(f) ==
    [id |-> f.id, x |-> f.x, y |-> f.y, start_id |-> Unwrap(f.half_edge_id)]

\* the panic of the first half-edge, in arena order, whose conversion panics
FirstHalfEdgePanic(half_edges) ==
    LET bad == {i \in 1..Len(half_edges) : IntoHalfEdgePanic(half_edges[i]) # ""}
    IN  IF bad = {} THEN ""
        ELSE IntoHalfEdgePanic(half_edges[CHOOSE i \in bad : \A j \in bad : i <= j])

\* the panic of the first face, in arena order, whose conversion panics
FirstFacePanic(faces) ==
    LET bad == {i \in 1..Len(faces) : IntoFacePanic(faces[i]) # ""}
    IN  IF bad = {} THEN ""
        ELSE IntoFacePanic(faces[CHOOSE i \in bad : \A j \in bad : i <= j])

\* Assemble with width and height exchanged
AssembleSwapped(b) ==
    [width |-> b.height, height |-> b.width,
     vertices |-> b.vertices,
     half_edges |-> [i \in 1..Len(b.half_edges) |-> into_half_edge(b.half_edges[i])],
     faces |-> [i \in 1..Len(b.faces) |-> into_face(b.faces[i])]]

\* the Diagram build assembles: vertices taken, half edges and faces
\* converted in order
Assemble(b) ==
    [width |-> b.width, height |-> b.height,
     vertices |-> b.vertices,
     half_edges |-> [i \in 1..Len(b.half_edges) |-> into_half_edge(b.half_edges[i])],
     faces |-> [i \in 1..Len(b.faces) |-> into_face(b.faces[i])]]

\* Cleared with the faces read but not drained
ClearedKeepingFaces(b) ==
    [b EXCEPT !.vertices = <<>>, !.half_edges = <<>>,
              !.events = <<>>, !.edges = <<>>, !.arcs = <<>>, !.root = None]

\* the builder build leaves behind: arenas taken or drained, scratch cleared
Cleared(b) ==
    [b EXCEPT !.vertices = <<>>, !.half_edges = <<>>, !.faces = <<>>,
              !.events = <<>>, !.edges = <<>>, !.arcs = <<>>, !.root = None]

\* the end of build: <<builder, Some(diagram)>>, or <<panicked builder, None>>
\* when a conversion panics (the arenas moved out before it are lost)
BuildDiagram(b) ==
    LET he_panic == FirstHalfEdgePanic(b.half_edges)
        f_panic  == FirstFacePanic(b.faces)
    IN  IF ~Ok(b) THEN <<b, None>>
        ELSE IF he_panic # ""
        THEN <<Panic([b EXCEPT !.vertices = <<>>, !.half_edges = <<>>], he_panic), None>>
        ELSE IF f_panic # ""
        THEN <<Panic([b EXCEPT !.vertices = <<>>, !.half_edges = <<>>, !.faces = <<>>],
                     f_panic), None>>
        ELSE <<Cleared(b), Some(Assemble(b))>>

\* `as f32`: the nearest value with a 24 bit significand, ties to even.
\* Scaled(n, d, k) brings n/d into [2^23, 2^24) as (n/d) * 2^k.
RECURSIVE Scaled(_, _, _)
Scaled(n, d, k) ==
    IF n < 8388608 * d THEN Scaled(2 * n, d, k + 1)
    ELSE IF n >= 16777216 * d THEN Scaled(n, 2 * d, k - 1)
    ELSE <<n, d, k>>
RECURSIVE Pow2(_)
Pow2(k) == IF k = 0 THEN 1 ELSE 2 * Pow2(k - 1)
as_f32(q) ==
    IF q[1] = 0 THEN RZero
    ELSE LET Signed(sig, k) ==
                 IF k >= 0 THEN Rat(sig, Pow2(k)) ELSE R(sig * Pow2(0 - k))
             Round(n, d, k) ==
                 LET m   == n \div d
                     rem == n % d
                     up  == 2 * rem > d \/ (2 * rem = d /\ m % 2 = 1)
                 IN  Signed(Sign(q[1]) * (IF up THEN m + 1 ELSE m), k)
             Normal(sc) == Round(sc[1], sc[2], sc[3])
         IN  Normal(Scaled(Abs(q[1]), q[2], 0))

\* the three floats create_triangles pushes for a point
TrianglePoint(p, scale) ==
    <<as_f32(RSub(RDiv(p.x, scale), R(1))), as_f32(RSub(RDiv(p.y, scale), R(1))), RZero>>

RECURSIVE FlattenPoints(_, _)
FlattenPoints(points, scale) ==
    IF points = <<>> THEN <<>>
    ELSE TrianglePoint(Head(points), scale) \o FlattenPoints(Tail(points), scale)

\* RingTriangles without the triangle that closes the fan
RECURSIVE RingTrianglesOpen(_, _, _, _, _)
RingTrianglesOpen(d, id, cur_id, seen, indices) ==
    LET offset   == Len(d.faces)
        start_id == At(d.faces, id).start_id
        next_id  == At(d.half_edges, cur_id).next_id
    IN  IF next_id = start_id THEN <<indices, TRUE>>
        ELSE IF cur_id \in seen THEN <<indices, FALSE>>
        ELSE RingTrianglesOpen(d, id, next_id, seen \cup {cur_id},
                               indices \o <<id, offset + At(d.half_edges, cur_id).start_id,
                                            offset + At(d.half_edges, next_id).start_id>>)

\* the ring loop of create_triangles for face id: <<indices, ended>>; the
\* loop never ends when the ring does not lead back to the start
RECURSIVE RingTriangles(_, _, _, _, _)
RingTriangles(d, id, cur_id, seen, indices) ==
    LET offset   == Len(d.faces)
        start_id == At(d.faces, id).start_id
        next_id  == At(d.half_edges, cur_id).next_id
    IN  IF next_id = start_id
        THEN <<indices \o <<id, offset + At(d.half_edges, cur_id).start_id,
                            offset + At(d.half_edges, start_id).start_id>>, TRUE>>
        ELSE IF cur_id \in seen THEN <<indices, FALSE>>
        ELSE RingTriangles(d, id, next_id, seen \cup {cur_id},
                           indices \o <<id, offset + At(d.half_edges, cur_id).start_id,
                                        offset + At(d.half_edges, next_id).start_id>>)

RECURSIVE FaceTriangles(_, _, _)
FaceTriangles(d, id, indices) ==
    IF id >= Len(d.faces) THEN <<indices, TRUE>>
    ELSE LET Onward(ring) ==
                 IF ring[2] THEN FaceTriangles(d, id + 1, ring[1]) ELSE ring
         IN  Onward(RingTriangles(d, id, At(d.faces, id).start_id, {}, indices))

\* Diagram::create_triangles; returns is FALSE when the call never returns
create_triangles(d) ==
    LET scale == RHalf(d.width)
        Buffers(tri) ==
            [vertices |-> FlattenPoints(d.faces, scale) \o FlattenPoints(d.vertices, scale),
             indices  |-> tri[1],
             returns  |-> tri[2]]
    IN  Buffers(FaceTriangles(d, 0, <<>>))

(***************************************************************************)
(* The state machine: one Builder, used as main.rs and the tests use it    *)
(* (add_site calls, then build), and the Diagrams it has returned.         *)
(***************************************************************************)
VARIABLES
    builder,      \* the Builder
    pc,           \* where the running build() is: "idle" (no call running),
                  \* "events", "edges", "bound", "finish"; "panicked",
                  \* "diverged" when the call has failed or cannot end
    diagrams,     \* the Diagrams returned by build(), oldest first
    sites_added,  \* number of add_site calls so far
    triangles,    \* Some(the index of the diagram and the returned buffers)
                  \* when the last call was a create_triangles, else None
    event,        \* Some(the event handle_events popped last) in the
                  \* running build(), else None
    linear,       \* the system handed to linear::solve_from_matrix and what
                  \* the call returned, None when there is none
    minor,        \* a matrix and the MinorMatrixView on it, None when there
                  \* is none
    sweep,        \* the running build()'s event loop so far: the number of
                  \* events popped and the ids of the events pushed, in order
    found         \* the last call of find_prev_arc_id or find_next_arc_id
                  \* and the arc it returned, None when there is none

vars == <<builder, pc, diagrams, sites_added, triangles, event, linear, minor, sweep, found>>

\* no event popped or pushed
NoSweep == [popped |-> 0, pushed |-> <<>>]
\* the ids of the events of a queue, in the order they were pushed
EventIds(events) == [k \in 1..Len(events) |-> events[k].id]

Init ==
    /\ \E d \in Dims : builder = BuilderNew(R(d[1]), R(d[2]))
    /\ pc = "idle"
    /\ diagrams = <<>>
    /\ sites_added = 0
    /\ triangles = None
    /\ event = None
    /\ linear = None
    /\ minor = None
    /\ sweep = NoSweep
    /\ found = None

\* the position after a step of build() that leaves the builder as b
After(b, next_pc) ==
    IF Ok(b) THEN next_pc
    ELSE IF b.panic \in NeverEnds THEN "diverged"
    ELSE "panicked"

\* builder.add_site(x, y), on a Builder of dimension d
AddSite(d, x, y) ==
    /\ pc = "idle"
    /\ builder.width = R(d[1]) /\ builder.height = R(d[2])
    /\ sites_added < MaxSites
    /\ builder' = add_site(builder, R(x), R(y))
    /\ sites_added' = sites_added + 1
    /\ triangles' = None
    /\ UNCHANGED <<pc, diagrams, event, linear, minor, sweep, found>>

\* build() is called: create_events
BuildStart ==
    /\ pc = "idle"
    /\ Len(diagrams) < MaxBuilds
    /\ builder' = create_events(builder)
    /\ pc' = "events"
    /\ triangles' = None
    /\ event' = None
    /\ sweep' = [popped |-> 0, pushed |-> EventIds(builder'.events)]
    /\ UNCHANGED <<diagrams, sites_added, linear, minor, found>>

\* handle_events: one turn of its loop
HandleEvent ==
    /\ pc = "events"
    /\ builder.events # <<>>
    /\ \E i \in Greatest(builder.events) :
           /\ builder' = HandleOne(builder, i)
           /\ event' = Some(builder.events[i])
           /\ pc' = After(builder', "events")
    \* the events pushed in this turn are the new tail of the queue
    /\ sweep' = [popped |-> sweep.popped + 1,
                 pushed |-> sweep.pushed \o
                            EventIds(SubSeq(builder'.events, Len(builder.events),
                                            Len(builder'.events)))]
    /\ UNCHANGED <<diagrams, sites_added, triangles, linear, minor, found>>

\* handle_events ends on the empty queue; complete_edges
CompleteEdges ==
    /\ pc = "events"
    /\ builder.events = <<>>
    /\ builder' = complete_edges(builder)
    /\ pc' = After(builder', "bound")
    /\ event' = None
    /\ sweep' = NoSweep
    /\ UNCHANGED <<diagrams, sites_added, triangles, linear, minor, found>>

\* bound
Bound ==
    /\ pc = "bound"
    /\ builder' = bound(builder)
    /\ pc' = After(builder', "finish")
    /\ UNCHANGED <<diagrams, sites_added, triangles, event, linear, minor, sweep, found>>

\* the Diagram is assembled and returned, the builder cleared
Finish ==
    /\ pc = "finish"
    /\ LET Return(b, diagram) ==
               /\ builder' = b
               /\ pc' = After(b, "idle")
               /\ diagrams' = IF IsSome(diagram) THEN Append(diagrams, Unwrap(diagram))
                              ELSE diagrams
           Built(res) == Return(res[1], res[2])
       IN  Built(BuildDiagram(builder))
    /\ UNCHANGED <<sites_added, triangles, event, linear, minor, sweep, found>>

\* diagrams[k].create_triangles()
CreateTriangles(k) ==
    /\ pc = "idle"
    /\ k \in 1..Len(diagrams)
    /\ triangles' = Some([diagram |-> k, buffers |-> create_triangles(diagrams[k])])
    /\ UNCHANGED <<builder, pc, diagrams, sites_added, event, linear, minor, sweep, found>>

Next ==
    \/ \E d \in Dims : \E x \in Coords(d), y \in Coords(d) : AddSite(d, x, y)
    \/ BuildStart
    \/ HandleEvent
    \/ CompleteEdges
    \/ Bound
    \/ Finish
    \/ \E k \in 1..MaxBuilds : CreateTriangles(k)

Spec == Init /\ [][Next]_vars

(***************************************************************************)
(* The matrix kernel on its own: linear::solve_from_matrix on a system     *)
(* (as the tests of linear.rs call it) and a MinorMatrixView on a matrix.  *)
(* The Builder stays as constructed.                                       *)
(***************************************************************************)
\* (rows, cols) of the systems handed to solve_from_matrix
LinearShapes == {<<0, 0>>, <<2, 0>>, <<1, 2>>, <<1, 3>>, <<2, 3>>, <<2, 4>>, <<3, 4>>}
\* the integer coefficients of a system of that shape
LinearCoefficients(shape) ==
    IF shape[1] * shape[2] <= 6 THEN {-2, -1, 0, 1, 2} ELSE {0, 1}
\* the systems of test_solve_system and test_solve_no_unique_solution
TestSystems ==
    { << <<2, -3, 1, 0>>, <<-1, 6, 2, -26>>, <<-1, -1, -1, 10>> >>,
      << <<-1, -1, -1, 10>>, <<-1, 6, 2, -26>>, <<-3, 4, 0, -6>> >> }
\* MatrixVarF64 with the given integer entries
MatrixOf(entries) ==
    [i \in 1..Len(entries) |-> [j \in 1..Len(entries[i]) |-> R(entries[i][j])]]
Systems ==
    TestSystems \cup
    UNION {[1..shape[1] -> [1..shape[2] -> LinearCoefficients(shape)]] :
               shape \in LinearShapes}

\* the state before the call: the system, no result yet; previous is the
\* result for the system the rows of this one were permuted from
LinearCall(system, previous) ==
    [system |-> system, result |-> None, matrix |-> system, previous |-> previous]

\* solve_from_matrix(&mut system): the result and the matrix as it is left
SolveFromMatrix ==
    /\ IsSome(linear)
    /\ IsNone(Unwrap(linear).result)
    /\ LET Returned_(res) ==
               linear' = Some([Unwrap(linear) EXCEPT
                                   !.result = Some([ok |-> res.ok, x |-> res.x]),
                                   !.matrix = res.src])
       IN  Returned_(solve_from_matrix(Unwrap(linear).system))
    /\ UNCHANGED <<builder, pc, diagrams, sites_added, triangles, event, minor, sweep, found>>

\* the caller builds the system again with rows i and j exchanged
PermuteRows(i, j) ==
    /\ IsSome(linear)
    /\ IsSome(Unwrap(linear).result)
    /\ i < j /\ j <= Len(Unwrap(linear).system)
    /\ linear' = Some(LinearCall([Unwrap(linear).system EXCEPT
                                      ![i] = Unwrap(linear).system[j],
                                      ![j] = Unwrap(linear).system[i]],
                                 Unwrap(linear).result))
    /\ UNCHANGED <<builder, pc, diagrams, sites_added, triangles, event, minor, sweep, found>>

\* (rows, cols) of the matrices a MinorMatrixView is taken of
MinorShapes == {<<1, 1>>, <<2, 2>>, <<2, 3>>, <<3, 2>>, <<3, 3>>}
\* the values written by set
WrittenValues == {-1}

\* MatrixVarF64 (rows, cols, values row by row), the element at (row, col)
\* holding 10 * row + col
MatrixVarF64(rows, cols) ==
    [rows |-> rows, cols |-> cols,
     values |-> [k \in 1..(rows * cols) |->
                    10 * ((k - 1) \div cols) + ((k - 1) % cols)]]
\* the index into values that get and set of MatrixVarF64 use
values_index(m, row, col) == row * m.cols + col
\* values[index] panics when the index is not below the length
InBounds(m, index) == index < Len(m.values)

\* MinorMatrixView::from_matrix: None for Err(BadDim)
minor_from_matrix(src, row, col) ==
    IF row < src.rows /\ col < src.cols THEN Some([row |-> row, col |-> col])
    ELSE None
\* MinorMatrixView::rows and cols; a negative value stands for the overflow
\* of the usize subtraction
minor_rows(src, view) == src.rows - view.row - 1
minor_cols(src, view) == src.cols - view.row - 1
\* the element of the source that get and set of the view go to
minor_index(src, view, row, col) ==
    values_index(src, view.row + row, IF col < view.col THEN col ELSE col + 1)

\* MinorMatrixView::from_matrix(&mut src, row, col)
MinorFromMatrix(row, col) ==
    /\ IsSome(minor)
    /\ IsNone(Unwrap(minor).view) /\ Unwrap(minor).error = ""
    /\ LET Created(view) ==
               minor' = Some([Unwrap(minor) EXCEPT
                                  !.view = view,
                                  !.error = IF IsNone(view) THEN "BadDim" ELSE ""])
       IN  Created(minor_from_matrix(Unwrap(minor).src, row, col))
    /\ UNCHANGED <<builder, pc, diagrams, sites_added, triangles, event, linear, sweep, found>>

\* view.get(row, col): the access is recorded with the index it went to
MinorGet(row, col) ==
    /\ IsSome(minor)
    /\ IsSome(Unwrap(minor).view) /\ Unwrap(minor).error = ""
    /\ LET Read(src, index) ==
               minor' = Some([Unwrap(minor) EXCEPT
                                  !.access = Some([op |-> "get", row |-> row, col |-> col,
                                                   index |-> index,
                                                   value |-> IF InBounds(src, index)
                                                             THEN src.values[index + 1]
                                                             ELSE 0]),
                                  !.error = IF InBounds(src, index) THEN ""
                                            ELSE "index out of bounds"])
       IN  Read(Unwrap(minor).src,
                minor_index(Unwrap(minor).src, Unwrap(Unwrap(minor).view), row, col))
    /\ UNCHANGED <<builder, pc, diagrams, sites_added, triangles, event, linear, sweep, found>>

\* view.set(row, col, value)
MinorSet(row, col, value) ==
    /\ IsSome(minor)
    /\ IsSome(Unwrap(minor).view) /\ Unwrap(minor).error = ""
    /\ LET Write(src, index) ==
               minor' = Some([Unwrap(minor) EXCEPT
                                  !.access = Some([op |-> "set", row |-> row, col |-> col,
                                                   index |-> index, value |-> value]),
                                  !.src = IF InBounds(src, index)
                                          THEN [src EXCEPT !.values[index + 1] = value]
                                          ELSE src,
                                  !.error = IF InBounds(src, index) THEN ""
                                            ELSE "index out of bounds"])
       IN  Write(Unwrap(minor).src,
                 minor_index(Unwrap(minor).src, Unwrap(Unwrap(minor).view), row, col))
    /\ UNCHANGED <<builder, pc, diagrams, sites_added, triangles, event, linear, sweep, found>>

\* either a system to solve or a matrix to take a minor of
InitMatrix ==
    /\ builder = BuilderNew(R(4), R(4))
    /\ pc = "idle"
    /\ diagrams = <<>>
    /\ sites_added = 0
    /\ triangles = None
    /\ event = None
    /\ \/ /\ \E system \in Systems : linear = Some(LinearCall(MatrixOf(system), None))
          /\ minor = None
       \/ /\ linear = None
          /\ \E shape \in MinorShapes :
                 minor = Some([src |-> MatrixVarF64(shape[1], shape[2]),
                               view |-> None, error |-> "", access |-> None])
    /\ sweep = NoSweep
    /\ found = None

\* the indices a caller passes: those of the source and one past them
MinorIndices == 0..3

NextMatrix ==
    \/ SolveFromMatrix
    \/ \E i \in 1..3, j \in 1..3 : PermuteRows(i, j)
    \/ \E row \in MinorIndices, col \in MinorIndices : MinorFromMatrix(row, col)
    \/ \E row \in MinorIndices, col \in MinorIndices : MinorGet(row, col)
    \/ \E row \in MinorIndices, col \in MinorIndices, value \in WrittenValues :
           MinorSet(row, col, value)

SpecMatrix == InitMatrix /\ [][NextMatrix]_vars

(***************************************************************************)
(* Builds of four sites.  An arc-remove event is handled by remove_arc     *)
(* only when its id equals the id of its arc (update_remove_event stores   *)
(* the arc id as remove_event_id), which takes a fourth site waiting in    *)
(* the queue; the site lists below are such inputs in the 4 x 4 box.       *)
(***************************************************************************)
FourSites ==
    { << <<1, 1>>, <<1, 3>>, <<1, 2>>, <<2, 1>> >>,
      << <<1, 1>>, <<2, 3>>, <<2, 2>>, <<3, 1>> >>,
      << <<2, 3>>, <<2, 2>>, <<3, 1>>, <<1, 1>> >>,
      << <<3, 1>>, <<2, 3>>, <<1, 2>>, <<2, 2>> >> }

\* add_site with the next site of the list
AddListedSite(sites) ==
    /\ pc = "idle"
    /\ Len(builder.faces) < Len(sites)
    /\ \A k \in 1..Len(builder.faces) :
           /\ builder.faces[k].x = R(sites[k][1])
           /\ builder.faces[k].y = R(sites[k][2])
    /\ builder' = add_site(builder, R(sites[Len(builder.faces) + 1][1]),
                                    R(sites[Len(builder.faces) + 1][2]))
    /\ sites_added' = sites_added + 1
    /\ triangles' = None
    /\ UNCHANGED <<pc, diagrams, event, linear, minor, sweep, found>>

InitFourSites ==
    /\ builder = BuilderNew(R(4), R(4))
    /\ pc = "idle"
    /\ diagrams = <<>>
    /\ sites_added = 0
    /\ triangles = None
    /\ event = None
    /\ linear = None
    /\ minor = None
    /\ sweep = NoSweep
    /\ found = None

NextFourSites ==
    \/ \E sites \in FourSites : AddListedSite(sites)
    \/ BuildStart
    \/ HandleEvent
    \/ CompleteEdges
    \/ Bound
    \/ Finish
    \/ \E k \in 1..MaxBuilds : CreateTriangles(k)

SpecFourSites == InitFourSites /\ [][NextFourSites]_vars

\* ---- find_prev_arc_id and find_next_arc_id on beachline trees ----

\* the numbers of arcs of the trees drawn
LeafCounts == 1..5
\* the shapes of the binary trees of k leaves: <<>> is an arc, <<l, r>> a
\* breakpoint over the shapes l and r
RECURSIVE Shapes(_)
Shapes(k) ==
    IF k = 1 THEN {<<>>}
    ELSE UNION {{<<l, r>> : l \in Shapes(j), r \in Shapes(k - j)} : j \in 1..(k - 1)}
\* a breakpoint over two planted nodes, which get their parent links as
\* add_arc assigns them; the builder and the new node
PlantEdge(b, left, right) ==
    LET SetParent(b1, node) ==
            IF IsArc(node)
            THEN [b1 EXCEPT !.arcs[node[2] + 1].parent_id = Some(Len(b.edges))]
            ELSE [b1 EXCEPT !.edges[node[2] + 1].parent_id = Some(Len(b.edges))]
    IN  <<SetParent(SetParent(create_edge(b, 0, left, right), left), right),
          Edge(Len(b.edges))>>
\* the tree of a shape in the arenas of b; the builder and the root node
RECURSIVE Plant(_, _)
Plant(b, shape) ==
    IF shape = <<>> THEN <<create_arc(b, 0), Arc(Len(b.arcs))>>
    ELSE LET Join(left, planted) == PlantEdge(planted[1], left, planted[2])
             Right(planted) == Join(planted[2], Plant(planted[1], shape[2]))
         IN  Right(Plant(b, shape[1]))
\* find_prev_arc_id(edge_id) is called
FindPrevArc(edge_id) ==
    /\ pc = "tree"
    /\ edge_id < Len(builder.edges)
    /\ found' = Some([edge_id |-> edge_id, side |-> "prev",
                      arc_id |-> find_prev_arc_id(builder, edge_id)])
    /\ UNCHANGED <<builder, pc, diagrams, sites_added, triangles, event,
                   linear, minor, sweep>>

\* find_next_arc_id(edge_id) is called
FindNextArc(edge_id) ==
    /\ pc = "tree"
    /\ edge_id < Len(builder.edges)
    /\ found' = Some([edge_id |-> edge_id, side |-> "next",
                      arc_id |-> find_next_arc_id(builder, edge_id)])
    /\ UNCHANGED <<builder, pc, diagrams, sites_added, triangles, event,
                   linear, minor, sweep>>

\* a builder whose beachline is the tree of a shape
InitTrees ==
    /\ LET Rooted(planted) == [planted[1] EXCEPT !.root = Some(planted[2])]
       IN  \E k \in LeafCounts : \E shape \in Shapes(k) :
               builder = Rooted(Plant(BuilderNew(R(GenerateDim[1]),
                                                 R(GenerateDim[2])), shape))
    /\ pc = "tree"
    /\ diagrams = <<>>
    /\ sites_added = 0
    /\ triangles = None
    /\ event = None
    /\ linear = None
    /\ minor = None
    /\ sweep = NoSweep
    /\ found = None

NextTrees ==
    \/ \E edge_id \in 0..(Len(builder.edges) - 1) : FindPrevArc(edge_id)
    \/ \E edge_id \in 0..(Len(builder.edges) - 1) : FindNextArc(edge_id)

SpecTrees == InitTrees /\ [][NextTrees]_vars

(***************************************************************************)
(* Properties                                                              *)
(***************************************************************************)
Failed == pc \in {"panicked", "diverged"}
\* the step at which build() returns, and the Diagram it returns
Returns == pc = "finish" /\ pc' = "idle"
Returned == diagrams[Len(diagrams)]

HalfEdgeIds(d) == 0..(Len(d.half_edges) - 1)
VertexIds(d) == 0..(Len(d.vertices) - 1)
FaceIds(d) == 0..(Len(d.faces) - 1)

\* the point lies on the bounding rectangle of d
OnRectangle(d, v) ==
    /\ RLe(RZero, v.x) /\ RLe(v.x, d.width)
    /\ RLe(RZero, v.y) /\ RLe(v.y, d.height)
    /\ (v.x = RZero \/ v.x = d.width \/ v.y = RZero \/ v.y = d.height)

\* all ids stored in d resolve to records of d
Resolves(d) ==
    /\ \A i \in 1..Len(d.half_edges) :
           LET e == d.half_edges[i]
           IN  /\ e.start_id \in VertexIds(d)
               /\ e.prev_id \in HalfEdgeIds(d)
               /\ e.next_id \in HalfEdgeIds(d)
               /\ e.face_id \in FaceIds(d)
               /\ IsSome(e.twin_id) => Unwrap(e.twin_id) \in HalfEdgeIds(d)
    /\ \A i \in 1..Len(d.faces) : d.faces[i].start_id \in HalfEdgeIds(d)

\* the sites have pairwise distinct x and pairwise distinct y coordinates
DistinctXY(faces) ==
    \A i, j \in 1..Len(faces) :
        i # j => faces[i].x # faces[j].x /\ faces[i].y # faces[j].y

\* the sites lie strictly inside the rectangle of b
StrictlyInside(b) ==
    \A i \in 1..Len(b.faces) :
        /\ RLt(RZero, b.faces[i].x) /\ RLt(b.faces[i].x, b.width)
        /\ RLt(RZero, b.faces[i].y) /\ RLt(b.faces[i].y, b.height)

\* C1: for every set of sites strictly inside the rectangle with pairwise
\* distinct x and pairwise distinct y, three or more included, build() runs
\* to its end without a panic, unwrap or expect failing (and without
\* looping for ever).
C1_BuildReturnsForDistinctSites ==
    Failed => ~(StrictlyInside(builder) /\ DistinctXY(builder.faces))

\* C2: in every returned Diagram each half-edge either has no twin and
\* both its start vertex and the start vertex of its next lie on the
\* bounding rectangle, or has a twin whose twin it is and whose face
\* differs from its own.
C2_TwinOrBorder ==
    \A k \in 1..Len(diagrams) :
        LET d == diagrams[k]
        IN  \A i \in 1..Len(d.half_edges) :
                LET e == d.half_edges[i]
                IN  IF IsNone(e.twin_id)
                    THEN /\ e.start_id \in VertexIds(d)
                         /\ e.next_id \in HalfEdgeIds(d)
                         /\ At(d.half_edges, e.next_id).start_id \in VertexIds(d)
                         /\ OnRectangle(d, At(d.vertices, e.start_id))
                         /\ OnRectangle(d, At(d.vertices,
                                              At(d.half_edges, e.next_id).start_id))
                    ELSE /\ Unwrap(e.twin_id) \in HalfEdgeIds(d)
                         /\ At(d.half_edges, Unwrap(e.twin_id)).twin_id = Some(i - 1)
                         /\ At(d.half_edges, Unwrap(e.twin_id)).face_id # e.face_id

\* a Diagram of two faces was returned: it holds twinned and untwinned
\* half-edges
C2_Witness ==
    \E k \in 1..Len(diagrams) :
        /\ \E i \in 1..Len(diagrams[k].half_edges) : IsSome(diagrams[k].half_edges[i].twin_id)
        /\ \E i \in 1..Len(diagrams[k].half_edges) : IsNone(diagrams[k].half_edges[i].twin_id)

\* C3: in every returned Diagram, for every half-edge e, next(prev(e)) = e,
\* prev(next(e)) = e and face(e) = face(next(e)).
C3_NextPrevFace ==
    \A k \in 1..Len(diagrams) :
        LET d == diagrams[k]
        IN  \A i \in 1..Len(d.half_edges) :
                LET e == d.half_edges[i]
                IN  /\ e.prev_id \in HalfEdgeIds(d)
                    /\ e.next_id \in HalfEdgeIds(d)
                    /\ At(d.half_edges, e.prev_id).next_id = i - 1
                    /\ At(d.half_edges, e.next_id).prev_id = i - 1
                    /\ At(d.half_edges, e.next_id).face_id = e.face_id

\* a returned Diagram with two rings of three or more half-edges each
C3_Witness ==
    \E k \in 1..Len(diagrams) :
        /\ Len(diagrams[k].faces) = 2
        /\ Len(diagrams[k].half_edges) >= 6

\* the half-edges met following next from cur until start is reached again:
\* <<closed, visited>>, closed FALSE when the walk runs into a cycle that
\* does not hold start
RECURSIVE RingWalk(_, _, _, _)
RingWalk(d, cur, start, seen) ==
    LET next_id == At(d.half_edges, cur).next_id
        visited == seen \cup {cur}
    IN  IF next_id = start THEN <<TRUE, visited>>
        ELSE IF next_id \in visited \/ next_id \notin HalfEdgeIds(d)
        THEN <<FALSE, visited>>
        ELSE RingWalk(d, next_id, start, visited)

\* C4: in every returned Diagram, for every face f, following next from
\* f.start_id comes back to f.start_id; the half-edges visited are exactly
\* the half-edges whose face_id is f.id.
C4_SingleRing ==
    \A k \in 1..Len(diagrams) :
        LET d == diagrams[k]
        IN  \A i \in 1..Len(d.faces) :
                /\ d.faces[i].start_id \in HalfEdgeIds(d)
                /\ LET ring == RingWalk(d, d.faces[i].start_id, d.faces[i].start_id, {})
                   IN  /\ ring[1]
                       /\ ring[2] = {h \in HalfEdgeIds(d) :
                                         At(d.half_edges, h).face_id = d.faces[i].id}

\* a returned Diagram whose second face has a ring of its own
C4_Witness ==
    \E k \in 1..Len(diagrams) :
        /\ Len(diagrams[k].faces) = 2
        /\ \E h \in HalfEdgeIds(diagrams[k]) : At(diagrams[k].half_edges, h).face_id = 1

\* the position of the start vertex of half-edge h of d
StartOf(d, h) ==
    LET v == At(d.vertices, At(d.half_edges, h).start_id)
    IN  <<v.x, v.y>>

\* half-edge h of d runs along one side of the bounding rectangle
BorderSegment(d, h) ==
    LET a == StartOf(d, h)
        c == StartOf(d, At(d.half_edges, h).next_id)
    IN  /\ OnRectangle(d, [x |-> a[1], y |-> a[2]])
        /\ OnRectangle(d, [x |-> c[1], y |-> c[2]])
        /\ \/ a[1] = RZero /\ c[1] = RZero
           \/ a[1] = d.width /\ c[1] = d.width
           \/ a[2] = RZero /\ c[2] = RZero
           \/ a[2] = d.height /\ c[2] = d.height

\* d is the Diagram of the two sites held by faces: two faces in add_site
\* order, one twinned pair across the faces starting at two distinct border
\* vertices, untwinned border segments otherwise, closed rings
TwoSiteShape(faces, d) ==
    LET twinned == {h \in HalfEdgeIds(d) : IsSome(At(d.half_edges, h).twin_id)}
    IN  /\ Resolves(d)
        /\ Len(d.faces) = 2
        /\ \A i \in 1..2 : /\ d.faces[i].id = i - 1
                           /\ d.faces[i].x = faces[i].x
                           /\ d.faces[i].y = faces[i].y
        /\ Cardinality(twinned) = 2
        /\ \A h \in twinned :
               LET e == At(d.half_edges, h)
                   t == At(d.half_edges, Unwrap(e.twin_id))
               IN  /\ Unwrap(e.twin_id) \in twinned \ {h}
                   /\ t.twin_id = Some(h)
                   /\ t.face_id # e.face_id
                   /\ OnRectangle(d, At(d.vertices, e.start_id))
                   /\ e.start_id # t.start_id
                   /\ StartOf(d, h) # StartOf(d, Unwrap(e.twin_id))
        /\ \A h \in HalfEdgeIds(d) \ twinned : BorderSegment(d, h)
        /\ \A i \in 1..2 :
               RingWalk(d, d.faces[i].start_id, d.faces[i].start_id, {})[1]

\* the builder holds the two sites of generate() in its 1000 x 1000 box
IsGenerateInput(b) ==
    /\ b.width = R(1000) /\ b.height = R(1000)
    /\ Len(b.faces) = 2
    /\ <<b.faces[1].x, b.faces[1].y>> = <<R(100), R(100)>>
    /\ <<b.faces[2].x, b.faces[2].y>> = <<R(900), R(900)>>

\* the vertices and the number of half-edges of the Diagram of generate()
GenerateShape(d) ==
    /\ [i \in 1..Len(d.vertices) |-> <<d.vertices[i].x, d.vertices[i].y>>] =
           << <<R(0), R(1000)>>, <<R(1000), R(0)>>, <<R(0), R(0)>>, <<R(1000), R(1000)>> >>
    /\ Len(d.half_edges) = 6

SingleSiteDiagram(b) ==
    [width |-> b.width, height |-> b.height,
     vertices |-> << [id |-> 0, x |-> RZero, y |-> RZero],
                     [id |-> 1, x |-> b.width, y |-> RZero],
                     [id |-> 2, x |-> b.width, y |-> b.height],
                     [id |-> 3, x |-> RZero, y |-> b.height] >>,
     half_edges |-> [i \in 1..4 |-> [id |-> i - 1, face_id |-> 0, start_id |-> i - 1,
                                     twin_id |-> None,
                                     prev_id |-> (i + 2) % 4, next_id |-> i % 4]],
     faces |-> << [id |-> 0, x |-> b.faces[1].x, y |-> b.faces[1].y, start_id |-> 0] >>]

\* C6: build() on exactly one site does not fail and returns the corner
\* vertices (0,0), (width,0), (width,height), (0,height) with ids 0..3, four
\* untwinned half-edges of face 0 starting at them in that order and
\* connected top -> right -> bottom -> left -> top, and one face whose
\* start_id is the top half-edge 0.
C6_OneSite ==
    [][(pc # "idle" /\ Len(builder.faces) = 1)
       => /\ pc' \notin {"panicked", "diverged"}
          /\ Returns => Returned' = SingleSiteDiagram(builder)]_vars

\* a Diagram of one site was returned, in a box with width # height
C6_Witness ==
    \E k \in 1..Len(diagrams) :
        Len(diagrams[k].faces) = 1 /\ diagrams[k].width # diagrams[k].height

\* C7: build() with no sites returns a Diagram with the builder's width and
\* height and empty vertices, half_edges and faces.
C7_NoSites ==
    [][(pc # "idle" /\ builder.faces = <<>>)
       => /\ pc' \notin {"panicked", "diverged"}
          /\ Returns => Returned' = [width |-> builder.width, height |-> builder.height,
                                     vertices |-> <<>>, half_edges |-> <<>>,
                                     faces |-> <<>>]]_vars

\* the first build() of a Builder returned a Diagram without faces, in a box
\* with width # height
C7_Witness ==
    /\ diagrams # <<>>
    /\ diagrams[1].faces = <<>>
    /\ diagrams[1].width # diagrams[1].height

\* at finalization some half-edge lacks its start, prev or next, or some
\* face its boundary half-edge
Unfinished(b) ==
    \/ \E i \in 1..Len(b.half_edges) :
           \/ IsNone(b.half_edges[i].start_id)
           \/ IsNone(b.half_edges[i].prev_id)
           \/ IsNone(b.half_edges[i].next_id)
    \/ \E i \in 1..Len(b.faces) : IsNone(b.faces[i].half_edge_id)

\* C8: when at finalization a half-edge has no start vertex, no prev or no
\* next, or a face has no boundary half-edge, build() panics and returns
\* nothing; the start_id, prev_id and next_id of every returned half-edge
\* resolve to records of the returned Diagram.
C8_NoMalformedDiagram ==
    [][/\ (pc = "finish" /\ Unfinished(builder))
            => (pc' = "panicked" /\ diagrams' = diagrams)
       /\ Returns => Resolves(Returned')]_vars

\* finalization met a half-edge without start vertex and panicked
C8_Witness ==
    /\ pc = "panicked"
    /\ builder.panic = "all half edges should have a start vertex"
    /\ builder.faces # <<>>

RECURSIVE SumFaces(_)
SumFaces(ds) == IF ds = <<>> THEN 0 ELSE Len(Head(ds).faces) + SumFaces(Tail(ds))

\* C9: when build() returns, the builder's arenas and its event queue are
\* empty and its root absent; the returned Diagram holds the sites added
\* since the previous return and only them, with ids from 0 (none when no
\* site was added: the empty Diagram); the Diagrams returned earlier do not
\* change.
C9_BuilderReset ==
    [][/\ Returns =>
            /\ builder'.vertices = <<>> /\ builder'.half_edges = <<>>
            /\ builder'.faces = <<>> /\ builder'.events = <<>>
            /\ builder'.arcs = <<>> /\ builder'.edges = <<>>
            /\ builder'.root = None
            /\ SumFaces(diagrams') = sites_added
            /\ \A i \in 1..Len(Returned'.faces) : Returned'.faces[i].id = i - 1
            /\ \A i \in 1..Len(Returned'.vertices) : Returned'.vertices[i].id = i - 1
            /\ \A i \in 1..Len(Returned'.half_edges) : Returned'.half_edges[i].id = i - 1
            /\ Resolves(Returned')
            /\ Returned'.faces = <<>> =>
                   (Returned'.vertices = <<>> /\ Returned'.half_edges = <<>>)
       /\ Len(diagrams') >= Len(diagrams)
       /\ SubSeq(diagrams', 1, Len(diagrams)) = diagrams]_vars

\* a second build() returned a Diagram of sites added after the first
\* build() had returned a Diagram with sites
C9_Witness ==
    /\ Len(diagrams) = 2
    /\ diagrams[1].faces # <<>>
    /\ diagrams[2].faces # <<>>

\* the vertex buffer of the claim: every point as
\* (x / (width / 2) - 1, y / (height / 2) - 1, 0), faces first
RECURSIVE NormalisedPoints(_, _, _)
NormalisedPoints(points, half_width, half_height) ==
    IF points = <<>> THEN <<>>
    ELSE << as_f32(RSub(RDiv(Head(points).x, half_width), R(1))),
            as_f32(RSub(RDiv(Head(points).y, half_height), R(1))),
            RZero >> \o NormalisedPoints(Tail(points), half_width, half_height)

\* C10: the vertex buffer of create_triangles holds, for the F face sites
\* and then the V vertices in id order, (x/(width/2) - 1, y/(height/2) - 1,
\* 0): x normalised by the width and y by the height of the Diagram.
C10_NormalisedByWidthAndHeight ==
    IsSome(triangles) =>
        LET d == diagrams[Unwrap(triangles).diagram]
        IN  Unwrap(triangles).buffers.vertices =
                NormalisedPoints(d.faces, RHalf(d.width), RHalf(d.height))
                    \o NormalisedPoints(d.vertices, RHalf(d.width), RHalf(d.height))

\* the half-edges of the ring of start in walking order, from cur on (the
\* rings of a returned Diagram are closed, see C4; fuel bounds the walk)
RECURSIVE RingFrom(_, _, _, _)
RingFrom(d, cur, start, fuel) ==
    IF fuel = 0 \/ At(d.half_edges, cur).next_id = start THEN <<cur>>
    ELSE <<cur>> \o RingFrom(d, At(d.half_edges, cur).next_id, start, fuel - 1)

\* the triples (i, F + start(e_k), F + start(next(e_k))) for k = from..n
RECURSIVE FanTriples(_, _, _, _)
FanTriples(d, i, ring, from) ==
    IF from > Len(ring) THEN <<>>
    ELSE << i,
            Len(d.faces) + At(d.half_edges, ring[from]).start_id,
            Len(d.faces) + At(d.half_edges,
                              At(d.half_edges, ring[from]).next_id).start_id >>
         \o FanTriples(d, i, ring, from + 1)

\* the fans of the faces i, i + 1, ... of d in index order
RECURSIVE FansFrom(_, _)
FansFrom(d, i) ==
    IF i >= Len(d.faces) THEN <<>>
    ELSE FanTriples(d, i, RingFrom(d, At(d.faces, i).start_id, At(d.faces, i).start_id,
                                   Len(d.half_edges)), 1)
         \o FansFrom(d, i + 1)

\* the number of half-edges on the rings of the faces i, i + 1, ... of d
RECURSIVE RingHalfEdgesFrom(_, _)
RingHalfEdgesFrom(d, i) ==
    IF i >= Len(d.faces) THEN 0
    ELSE Len(RingFrom(d, At(d.faces, i).start_id, At(d.faces, i).start_id,
                      Len(d.half_edges)))
         + RingHalfEdgesFrom(d, i + 1)

\* C11: create_triangles returns, and its index buffer holds, for the
\* faces in index order, one triple (i, F + start(e_k), F + start(next(e_k)))
\* per half-edge e_k of the ring of face i walked from start_id, the last
\* one closing the fan on start(e_1); it has 3 entries per ring half-edge.
C11_IndexFans ==
    IsSome(triangles) =>
        LET d == diagrams[Unwrap(triangles).diagram]
            t == Unwrap(triangles).buffers
        IN  /\ t.returns
            /\ t.indices = FansFrom(d, 0)
            /\ Len(t.indices) = 3 * RingHalfEdgesFrom(d, 0)

\* create_triangles was called on the Diagram of generate() and returned
\* the 18 indices the test of the source expects
C11_Witness ==
    /\ IsSome(triangles)
    /\ diagrams[Unwrap(triangles).diagram].width = R(1000)
    /\ Unwrap(triangles).buffers.indices =
           <<0, 3, 2, 0, 2, 4, 0, 4, 3, 1, 2, 3, 1, 3, 5, 1, 5, 2>>

\* C12: in every returned Diagram of two or more sites every half-edge has
\* a twin (a twin is absent only in the Diagram of a single site).
C12_TwinExceptSingleSite ==
    \A k \in 1..Len(diagrams) :
        Len(diagrams[k].faces) >= 2 =>
            \A i \in 1..Len(diagrams[k].half_edges) :
                IsSome(diagrams[k].half_edges[i].twin_id)

\* C12 as amended: a twin is absent only on the border.  In every returned
\* Diagram every half-edge without a twin runs along one side of the
\* bounding rectangle (all four half-edges of a single-site Diagram do), so
\* that every half-edge that is not a border segment has a twin.
C12_TwinAbsentOnlyOnBorder ==
    \A k \in 1..Len(diagrams) :
        LET d == diagrams[k]
        IN  /\ \A h \in HalfEdgeIds(d) :
                   IsNone(At(d.half_edges, h).twin_id) => BorderSegment(d, h)
            /\ Len(d.faces) = 1 =>
                   \A h \in HalfEdgeIds(d) : IsNone(At(d.half_edges, h).twin_id)

\* a Diagram of two sites was returned whose separating pair is twinned and
\* does not run along the border, and whose other half-edges have no twin
C12_Witness ==
    \E k \in 1..Len(diagrams) :
        LET d == diagrams[k]
        IN  /\ Len(d.faces) = 2
            /\ \E h \in HalfEdgeIds(d) :
                   IsSome(At(d.half_edges, h).twin_id) /\ ~BorderSegment(d, h)
            /\ Cardinality({h \in HalfEdgeIds(d) : IsNone(At(d.half_edges, h).twin_id)}) >= 4

\* the matrix a without its first row and its column j (1-based)
FirstRowMinor(a, j) ==
    [i \in 1..(Len(a) - 1) |->
        [k \in 1..(Len(a) - 1) |-> a[i + 1][IF k < j THEN k ELSE k + 1]]]
\* the determinant of the square block of the first Len(a) columns of a,
\* by cofactor expansion along the first row, columns j and onward
RECURSIVE Determinant(_)
RECURSIVE Cofactors(_, _)
Cofactors(a, j) ==
    IF j > Len(a) THEN RZero
    ELSE RAdd(RMul(IF j % 2 = 1 THEN a[1][j] ELSE RNeg(a[1][j]),
                   Determinant(FirstRowMinor(a, j))),
              Cofactors(a, j + 1))
Determinant(a) == IF Len(a) = 0 THEN R(1) ELSE Cofactors(a, 1)
\* a_1 x_1 + ... + a_n x_n + a_(n+1), from term j onward
RECURSIVE RowValue(_, _, _)
RowValue(row, x, j) ==
    IF j > Len(x) THEN row[Len(x) + 1]
    ELSE RAdd(RMul(row[j], x[j]), RowValue(row, x, j + 1))

\* C13: for an n x (n+1) system solve_from_matrix fails exactly when the
\* n x n coefficient block is singular and otherwise returns a vector of
\* length n that satisfies every row; with fewer than n rows it fails and
\* leaves the matrix as it was; with 0 columns it returns the empty vector.
C13_SolveContract ==
    (IsSome(linear) /\ IsSome(Unwrap(linear).result)) =>
        LET call == Unwrap(linear)
            res  == Unwrap(call.result)
            rows == MRows(call.system)
            cols == MCols(call.system)
        IN  /\ cols = 0 => (res.ok /\ res.x = <<>>)
            /\ (cols > 0 /\ rows + 1 < cols) =>
                   (~res.ok /\ call.matrix = call.system)
            /\ (cols > 0 /\ rows + 1 = cols) =>
                   /\ ~res.ok <=> Determinant(call.system) = RZero
                   /\ res.ok =>
                          /\ Len(res.x) = rows
                          /\ \A i \in 1..rows : RowValue(call.system[i], res.x, 1) = RZero
C13_Witness ==
    /\ IsSome(linear)
    /\ Unwrap(linear).system =
           MatrixOf(<< <<2, -3, 1, 0>>, <<-1, 6, 2, -26>>, <<-1, -1, -1, 10>> >>)
    /\ Unwrap(linear).result = Some([ok |-> TRUE, x |-> <<R(2), R(3), R(5)>>])
    /\ Unwrap(linear).matrix # Unwrap(linear).system

C15_MinorRemovesRowAndColumn ==
    (IsSome(minor) /\ IsSome(Unwrap(minor).view)) =>
        LET src  == Unwrap(minor).src
            view == Unwrap(Unwrap(minor).view)
        IN  /\ minor_rows(src, view) = src.rows - 1
            /\ minor_cols(src, view) = src.cols - 1
            /\ IsSome(Unwrap(minor).access) =>
                   LET access == Unwrap(Unwrap(minor).access)
                   IN  (access.row < src.rows - 1 /\ access.col < src.cols - 1) =>
                           /\ access.index =
                                  values_index(src,
                                      IF access.row < view.row THEN access.row
                                      ELSE access.row + 1,
                                      IF access.col < view.col THEN access.col
                                      ELSE access.col + 1)
                           /\ access.index \div src.cols # view.row
                           /\ access.index % src.cols # view.col

\* the nodes met from node by child pointers, at most fuel levels deep
RECURSIVE NodesBelow(_, _, _)
NodesBelow(b, node, fuel) ==
    IF fuel = 0 THEN {}
    ELSE IF IsArc(node) THEN {node}
    ELSE {node} \cup NodesBelow(b, At(b.edges, node[2]).left_child, fuel - 1)
                \cup NodesBelow(b, At(b.edges, node[2]).right_child, fuel - 1)
\* the nodes reachable from the root
NodesOfTree(b) ==
    IF IsNone(b.root) THEN {}
    ELSE NodesBelow(b, Unwrap(b.root), Len(b.arcs) + Len(b.edges))
\* every arc and breakpoint created
NodesCreated(b) ==
    {Arc(i - 1) : i \in 1..Len(b.arcs)} \cup {Edge(i - 1) : i \in 1..Len(b.edges)}
ParentOf(b, node) ==
    IF IsArc(node) THEN At(b.arcs, node[2]).parent_id ELSE At(b.edges, node[2]).parent_id
IsChildOf(b, node, parent_edge_id) ==
    \/ At(b.edges, parent_edge_id).left_child = node
    \/ At(b.edges, parent_edge_id).right_child = node
\* no node is removed before the first collapse, which creates the first vertex
WellFormedTree(b) ==
    /\ IsSome(b.root) => Unwrap(b.root) \in NodesCreated(b)
    /\ \A node \in NodesOfTree(b) :
           ~IsArc(node) =>
               /\ At(b.edges, node[2]).left_child \in NodesCreated(b)
               /\ At(b.edges, node[2]).right_child \in NodesCreated(b)
    /\ \A node \in NodesCreated(b) :
           IsSome(ParentOf(b, node)) => IsChildOf(b, node, Unwrap(ParentOf(b, node)))
    /\ Len(b.vertices) = 0 => NodesCreated(b) \subseteq NodesOfTree(b)

\* C16: after every site or arc-remove event the beachline is a well-formed
\* tree: the root is empty, an arc or a breakpoint; every breakpoint reachable
\* from the root has two children; every node with a parent is the left or
\* the right child of that parent; every arc and breakpoint created and not
\* removed is reachable from the root.
C16_BeachlineWellFormed ==
    (pc = "events" /\ IsSome(event) /\ Ok(builder)) => WellFormedTree(builder)

\* the arcs below node from left to right, at most fuel levels deep
RECURSIVE LeavesBelow(_, _, _)
LeavesBelow(b, node, fuel) ==
    IF fuel = 0 THEN <<>>
    ELSE IF IsArc(node) THEN <<node[2]>>
    ELSE LeavesBelow(b, At(b.edges, node[2]).left_child, fuel - 1)
         \o LeavesBelow(b, At(b.edges, node[2]).right_child, fuel - 1)
\* the in-order leaf sequence read from the root
Leaves(b) ==
    IF IsNone(b.root) THEN <<>>
    ELSE LeavesBelow(b, Unwrap(b.root), Len(b.arcs) + Len(b.edges))
\* the sequence with every occurrence of arc replaced by the arcs of by
RECURSIVE ReplaceLeaf(_, _, _)
ReplaceLeaf(leaves, arc, by) ==
    IF leaves = <<>> THEN <<>>
    ELSE (IF Head(leaves) = arc THEN by ELSE <<Head(leaves)>>)
         \o ReplaceLeaf(Tail(leaves), arc, by)
\* a turn of the loop of handle_events is being taken
HandlesEvent ==
    pc = "events" /\ IsSome(event') /\ builder' # builder
\* the turn handles the site event of a face on a beachline that is not empty
HandlesSplit ==
    HandlesEvent /\ Unwrap(event').kind[1] = "AddArc" /\ IsSome(builder.root)
               /\ Ok(builder')

\* C17: a site event for face F that splits arc A leaves the in-order leaf
\* sequence of the tree equal to the previous one with A replaced by A (the
\* original arc), a new arc of face F and a new arc of the face of A, also
\* when A is not the root.
C17_SplitReplacesLeaf ==
    [][HandlesSplit =>
          LET F == Unwrap(event').kind[2]
              A == Unwrap(find_split_arc(builder, Unwrap(builder.root), F))
              n == Len(builder.arcs)
          IN  /\ Len(builder'.arcs) = n + 2
              /\ At(builder'.arcs, n).face_id = F
              /\ At(builder'.arcs, n + 1).face_id = At(builder.arcs, A).face_id
              /\ At(builder'.arcs, A).face_id = At(builder.arcs, A).face_id
              /\ Leaves(builder') = ReplaceLeaf(Leaves(builder), A, <<A, n, n + 1>>)
      ]_vars

\* the turn handles an arc-remove event that check_remove_arc accepts
HandlesCollapse ==
    /\ HandlesEvent
    /\ Unwrap(event').kind[1] = "RemoveArc"
    /\ At(builder.arcs, Unwrap(event').kind[2]).remove_event_id = Some(Unwrap(event').id)
\* the half-edges of b that start at vertex v
StartingAt(b, v) ==
    {h \in 1..Len(b.half_edges) : b.half_edges[h].start_id = Some(v)}

\* C18: a collapse triggered by a valid arc-remove event completes without a
\* fatal assertion (its three connect calls join half-edges of the same
\* face with next / prev unset), and afterwards the half-edges starting at
\* the new vertex belong to three pairwise different faces.
C18_CollapseCompletes ==
    [][HandlesCollapse =>
          /\ Ok(builder')
          /\ Len(builder'.vertices) = Len(builder.vertices) + 1
          /\ Cardinality(StartingAt(builder', Len(builder.vertices))) = 3
          /\ Cardinality({builder'.half_edges[h].face_id :
                              h \in StartingAt(builder', Len(builder.vertices))}) = 3
      ]_vars

\* C19: a collapse of arc X removes X and one of its two adjacent breakpoints
\* from the tree: the in-order leaf sequence is the previous one with only X
\* deleted, and the surviving breakpoint owns the new down-going half-edge.
C19_CollapseRemovesArc ==
    [][HandlesCollapse =>
          LET X     == Unwrap(event').kind[2]
              left  == find_prev_edge_id(builder, X)
              right == find_next_edge_id(builder, X)
          IN  /\ IsSome(left) /\ IsSome(right)
              /\ Leaves(builder') = ReplaceLeaf(Leaves(builder), X, <<>>)
              /\ \E gone \in {Unwrap(left), Unwrap(right)} :
                     /\ NodesOfTree(builder') =
                            NodesOfTree(builder) \ {Arc(X), Edge(gone)}
                     /\ \A kept \in {Unwrap(left), Unwrap(right)} \ {gone} :
                            At(builder'.edges, kept).half_edge_id = Len(builder.half_edges)
      ]_vars

\* the conditions of update_remove_event for an event of arc on beachline b
\* with the sweep line at scan
ScheduleConditions(b, arc, scan) ==
    LET left  == find_prev_edge_id(b, arc)
        right == find_next_edge_id(b, arc)
    IN  /\ IsSome(left) /\ IsSome(right)
        /\ LET focus  == get_arc_focus(b, arc)
               circle == circle_through_points(
                             get_arc_focus(b, find_prev_arc_id(b, Unwrap(left))),
                             focus,
                             get_arc_focus(b, find_next_arc_id(b, Unwrap(right))))
           IN  /\ IsSome(circle)
               /\ SurdCmp(Surd(Unwrap(circle)[1][2], Unwrap(circle)[2].r2, 1), scan) >= 0
               /\ RLe(Unwrap(circle)[1][2], b.height)
               /\ RLe(focus[2], Unwrap(circle)[1][2])
\* the events of arc queued in after and not in before
NewEvents(before, after, arc) ==
    {i \in 1..Len(after.events) :
        /\ after.events[i].kind = <<"RemoveArc", arc>>
        /\ \A j \in 1..Len(before.events) : before.events[j] # after.events[i]}

\* C20: after every collapse of an arc X with neighbours L and R the circle
\* events of L and of R are recomputed: an event recorded on them before is
\* invalidated, and a new one is scheduled for each whose new neighbour
\* triple satisfies the scheduling conditions.
C20_CollapseRecomputes ==
    [][HandlesCollapse =>
          LET X     == Unwrap(event').kind[2]
              left  == find_prev_edge_id(builder, X)
              right == find_next_edge_id(builder, X)
          IN  /\ IsSome(left) /\ IsSome(right)
              /\ Ok(builder')
              /\ \A N \in {find_prev_arc_id(builder, Unwrap(left)),
                            find_next_arc_id(builder, Unwrap(right))} :
                     IF ScheduleConditions(builder', N, Unwrap(event').priority)
                     THEN /\ NewEvents(builder, builder', N) # {}
                          /\ IsSome(At(builder'.arcs, N).remove_event_id)
                     ELSE At(builder'.arcs, N).remove_event_id = None
      ]_vars

\* the events pushed in the turn of handle_events being taken
PushedInTurn ==
    SubSeq(builder'.events, Len(builder.events), Len(builder'.events))
\* the turn changes nothing but the queue, which loses the popped event
DropsEvent ==
    /\ Len(builder'.events) = Len(builder.events) - 1
    /\ [builder' EXCEPT !.events = <<>>] = [builder EXCEPT !.events = <<>>]

\* C21: a popped arc-remove event of arc X collapses X only if it is the
\* event scheduled last for X: scheduling records on X the id of the event
\* that was pushed, and a popped event whose id is not the one recorded on
\* X is dropped without changing the beachline, the arenas or the queue.
C21_LazyInvalidation ==
    [][HandlesEvent =>
          /\ \A k \in 1..Len(PushedInTurn) :
                 PushedInTurn[k].kind[1] = "RemoveArc" =>
                     At(builder'.arcs, PushedInTurn[k].kind[2]).remove_event_id
                         = Some(PushedInTurn[k].id)
          /\ (/\ Unwrap(event').kind[1] = "RemoveArc"
              /\ At(builder.arcs, Unwrap(event').kind[2]).remove_event_id
                     # Some(Unwrap(event').id)) => DropsEvent
      ]_vars

\* C22: site events are keyed by the site's y: of two sites with different
\* y the one with the higher y is popped first, whatever their x and their
\* insertion order.
C22_SitesByY ==
    [][(HandlesEvent /\ Unwrap(event').kind[1] = "AddArc") =>
          \A k \in 1..Len(builder'.events) :
              builder'.events[k].kind[1] = "AddArc" =>
                  RLe(At(builder.faces, builder'.events[k].kind[2]).y,
                      At(builder.faces, Unwrap(event').kind[2]).y)
      ]_vars

\* C23: over a whole build(), events pushed during the sweep included, no
\* event is popped with a priority greater than that of the event popped
\* before it.
C23_PrioritiesNonIncreasing ==
    [][(HandlesEvent /\ IsSome(event)) =>
          SurdCmp(Unwrap(event').priority, Unwrap(event).priority) <= 0
      ]_vars

\* the events left in the queue that were in it together with the popped
\* event and have its priority
TiedWithPopped ==
    {k \in 1..(Len(builder.events) - 1) :
        SurdCmp(builder'.events[k].priority, Unwrap(event').priority) = 0}

\* C24, as claimed: among events of equal priority that are in the queue
\* together, the event with the smaller id is popped first.
C24_SmallerIdFirst ==
    [][HandlesEvent =>
          \A k \in TiedWithPopped : Unwrap(event').id <= builder'.events[k].id
      ]_vars
\* C24, amended: among events of equal priority that are in the queue
\* together, the event with the larger id is popped first.
C24_LargerIdFirst ==
    [][HandlesEvent =>
          \A k \in TiedWithPopped : Unwrap(event').id >= builder'.events[k].id
      ]_vars
\* an event was popped while one of its priority and a smaller id waited
C24_Witness ==
    /\ pc = "events" /\ IsSome(event)
    /\ \E k \in 1..Len(builder.events) :
           /\ SurdCmp(builder.events[k].priority, Unwrap(event).priority) = 0
           /\ builder.events[k].id < Unwrap(event).id
           /\ builder.events[k].kind[1] = "AddArc"

\* no two entries of a sequence of ids are equal
Distinct(ids) == \A j, k \in 1..Len(ids) : ids[j] = ids[k] => j = k

\* C29: no two events that are in the queue at the same time, and no two
\* events pushed during one build(), have the same id.
C29_UniqueEventIds ==
    /\ Distinct(EventIds(builder.events))
    /\ Distinct(sweep.pushed)

\* C30: the event loop terminates: every turn pops one event, a site event
\* pushes at most two events and a remove event pushes none, so that for n
\* sites at most 3n - 2 events are popped, and the queue is empty when
\* finalization starts.
C30_SweepTerminates ==
    /\ [][HandlesEvent =>
             Len(PushedInTurn) <= (IF Unwrap(event').kind[1] = "AddArc"
                                   THEN 2 ELSE 0)]_vars
    /\ [](Len(builder.faces) > 0 => sweep.popped <= 3 * Len(builder.faces) - 2)
    /\ [][pc = "events" /\ pc' = "bound" => builder.events = <<>>]_vars
\* a sweep that popped events pushed on the way has emptied the queue
C30_Witness ==
    /\ pc = "events" /\ Ok(builder)
    /\ builder.events = <<>>
    /\ sweep.popped > Len(builder.faces)

\* a half-edge without its two links
Unlinked(half_edge) == [half_edge EXCEPT !.next_id = None, !.prev_id = None]
\* connect(first, second) is refused: a panic, and nothing else changes
ConnectFatal(b, r) == ~Ok(r) /\ [r EXCEPT !.panic = b.panic] = b
\* connect(first, second) sets the two links and nothing else
ConnectSets(b, first_id, second_id, r) ==
    /\ Ok(r)
    /\ [r EXCEPT !.half_edges = <<>>] = [b EXCEPT !.half_edges = <<>>]
    /\ Len(r.half_edges) = Len(b.half_edges)
    /\ At(r.half_edges, first_id).next_id = Some(second_id)
    /\ At(r.half_edges, second_id).prev_id = Some(first_id)
    /\ \A e \in HalfEdgeIds(b) :
           /\ Unlinked(At(r.half_edges, e)) = Unlinked(At(b.half_edges, e))
           /\ e # first_id =>
                  At(r.half_edges, e).next_id = At(b.half_edges, e).next_id
           /\ e # second_id =>
                  At(r.half_edges, e).prev_id = At(b.half_edges, e).prev_id
\* what connect(first, second) does on a builder
ConnectContract(b, first_id, second_id) ==
    IF \/ At(b.half_edges, first_id).face_id # At(b.half_edges, second_id).face_id
       \/ IsSome(At(b.half_edges, first_id).next_id)
       \/ IsSome(At(b.half_edges, second_id).prev_id)
    THEN ConnectFatal(b, connect_half_edges(b, first_id, second_id))
    ELSE ConnectSets(b, first_id, second_id,
                     connect_half_edges(b, first_id, second_id))
\* next(e) = f exactly when prev(f) = e
MutualLinks(b) ==
    \A e \in HalfEdgeIds(b), f \in HalfEdgeIds(b) :
        (At(b.half_edges, e).next_id = Some(f))
            <=> (At(b.half_edges, f).prev_id = Some(e))
\* a link that is set keeps its value while the half-edge exists
LinksKept ==
    \A e \in HalfEdgeIds(builder) \cap HalfEdgeIds(builder') :
        /\ IsSome(At(builder.half_edges, e).next_id) =>
               At(builder'.half_edges, e).next_id = At(builder.half_edges, e).next_id
        /\ IsSome(At(builder.half_edges, e).prev_id) =>
               At(builder'.half_edges, e).prev_id = At(builder.half_edges, e).prev_id

\* C27: connect(first, second) is fatal and changes nothing when the faces
\* differ, next(first) is set or prev(second) is set, and otherwise sets
\* exactly next(first) = second and prev(second) = first; so a link is
\* assigned at most once, and next(e) = f exactly when prev(f) = e in every
\* reachable builder state.
C27_ConnectSetOnce ==
    /\ [](Ok(builder) =>
             \A first_id \in HalfEdgeIds(builder),
                second_id \in HalfEdgeIds(builder) :
                 ConnectContract(builder, first_id, second_id))
    /\ []MutualLinks(builder)
    /\ [][LinksKept]_vars
\* a builder with linked half-edges, with a refused and an accepted pair
C27_Witness ==
    /\ Ok(builder)
    /\ \E e \in HalfEdgeIds(builder), f \in HalfEdgeIds(builder) :
           /\ e # f
           /\ At(builder.half_edges, e).next_id = Some(f)
           /\ At(builder.half_edges, f).prev_id = Some(e)
    /\ \E e \in HalfEdgeIds(builder), f \in HalfEdgeIds(builder) :
           /\ At(builder.half_edges, e).face_id = At(builder.half_edges, f).face_id
           /\ IsNone(At(builder.half_edges, e).next_id)
           /\ IsNone(At(builder.half_edges, f).prev_id)

\* the nodes below node in order: left subtree, node, right subtree
RECURSIVE InOrderBelow(_, _, _)
InOrderBelow(b, node, fuel) ==
    IF fuel = 0 THEN <<>>
    ELSE IF IsArc(node) THEN <<node>>
    ELSE InOrderBelow(b, At(b.edges, node[2]).left_child, fuel - 1)
         \o <<node>>
         \o InOrderBelow(b, At(b.edges, node[2]).right_child, fuel - 1)
\* the arcs and breakpoints of the beachline from left to right
InOrder(b) ==
    IF IsNone(b.root) THEN <<>>
    ELSE InOrderBelow(b, Unwrap(b.root), Len(b.arcs) + Len(b.edges))
\* call found the neighbour of its breakpoint in the sequence nodes
FoundNeighbour(nodes, call) ==
    \E p \in 1..Len(nodes) :
        /\ nodes[p] = Edge(call.edge_id)
        /\ IF call.side = "prev"
           THEN p > 1 /\ nodes[p - 1] = Arc(call.arc_id)
           ELSE p < Len(nodes) /\ nodes[p + 1] = Arc(call.arc_id)

\* C28: on a well-formed tree, nested breakpoints included, prev_arc(b) is
\* the arc immediately left of the breakpoint b in the in-order sequence of
\* the tree and next_arc(b) the arc immediately right of it.
C28_NeighbourArcs ==
    (IsSome(found) /\ WellFormedTree(builder)) =>
        FoundNeighbour(InOrder(builder), Unwrap(found))
\* the neighbour found of a breakpoint over a nested breakpoint on that side
C28_Witness ==
    /\ IsSome(found) /\ WellFormedTree(builder)
    /\ Unwrap(found).side = "prev"
    /\ ~IsArc(At(builder.edges, Unwrap(found).edge_id).left_child)
    /\ ~IsArc(At(builder.edges, Unwrap(found).edge_id).right_child)

\* the breakpoints of the beachline from left to right
Breakpoints(b) == SelectSeq(InOrder(b), LAMBDA node : ~IsArc(node))
\* the start vertex of the half-edge of a breakpoint, None when it has none
StartOfEdge(b, edge_id) ==
    At(b.half_edges, At(b.edges, edge_id).half_edge_id).start_id
\* the half-edge of the breakpoint starts on the bounding rectangle
StartsOnRectangle(b, edge_id) ==
    /\ IsSome(StartOfEdge(b, edge_id))
    /\ OnRectangle(b, At(b.vertices, Unwrap(StartOfEdge(b, edge_id))))
\* complete_edges runs to its end
CompletesEdges == pc = "events" /\ builder.events = <<>> /\ pc' = "bound"

\* C25: complete_edges visits every breakpoint created and not removed
\* exactly once, from left to right: it creates one vertex for each of
\* them, in that order, and the half-edge of each has a start vertex on the
\* bounding rectangle afterwards.
C25_EdgesCompleted ==
    [][CompletesEdges =>
          /\ \A edge_id \in 0..(Len(builder.edges) - 1) :
                 StartsOnRectangle(builder', edge_id)
          /\ Len(builder'.vertices) = Len(builder.vertices) + Len(builder.edges)
          /\ \A p \in 1..(Len(Breakpoints(builder)) - 1) :
                 Unwrap(StartOfEdge(builder', Breakpoints(builder)[p][2]))
                     < Unwrap(StartOfEdge(builder', Breakpoints(builder)[p + 1][2]))
      ]_vars

\* the half-edges met from cur by next links, when the walk comes back to
\* first; the empty set when it ends or comes back elsewhere
RECURSIVE NextCycleFrom(_, _, _, _)
NextCycleFrom(b, first, cur, met) ==
    LET Onward(next_id) ==
            IF IsNone(next_id) THEN {}
            ELSE IF Unwrap(next_id) = first THEN met \cup {cur}
            ELSE IF Unwrap(next_id) \in met \cup {cur} THEN {}
            ELSE NextCycleFrom(b, first, Unwrap(next_id), met \cup {cur})
    IN  Onward(At(b.half_edges, cur).next_id)
\* the half-edges of a face
HalfEdgesOfFace(b, face_id) ==
    {h \in HalfEdgeIds(b) : At(b.half_edges, h).face_id = face_id}
\* the faces that bound closes: those with an open boundary
OpenFaces(b) ==
    {f \in FaceIds(b) : ~has_complete_bounds(At(b.faces, f))}
\* the point is a corner of the bounding rectangle
IsCorner(b, v) ==
    v.x \in {RZero, b.width} /\ v.y \in {RZero, b.height}
\* bound runs to its end on a beachline of more than one arc
ClosesFaces ==
    /\ pc = "bound" /\ pc' = "finish"
    /\ IsSome(builder.root) /\ ~IsArc(Unwrap(builder.root))

\* C26: for every face with an open boundary complete_face_bounds crosses
\* at most four corners of the rectangle, creates one half-edge and one
\* corner vertex for each corner crossed and one closing half-edge, and
\* leaves all half-edges of the face in one closed next-cycle.
C26_FaceBoundsClosed ==
    [][ClosesFaces =>
          /\ \A f \in OpenFaces(builder) :
                 /\ Cardinality(HalfEdgesOfFace(builder', f))
                        - Cardinality(HalfEdgesOfFace(builder, f)) \in 1..5
                 /\ \A h \in HalfEdgesOfFace(builder', f) :
                        NextCycleFrom(builder', h, h, {})
                            = HalfEdgesOfFace(builder', f)
          /\ Len(builder'.vertices) - Len(builder.vertices)
                 = Len(builder'.half_edges) - Len(builder.half_edges)
                       - Cardinality(OpenFaces(builder))
          /\ \A v \in (Len(builder.vertices) + 1)..Len(builder'.vertices) :
                 IsCorner(builder', builder'.vertices[v])
      ]_vars

================================================================================
